---- MODULE Spec2Model ----
(***************************************************************************)
(* A model of the OpenRouter client library: the two HTTP clients          *)
(* (openrouter_py/client), the response records (openrouter_py/models)     *)
(* and the error hierarchy (openrouter_py/exceptions).                     *)
(*                                                                         *)
(* Python values are tagged records: None, str, number, list, dict.        *)
(* An error message is the sequence of the pieces its f-string joins.      *)
(***************************************************************************)
EXTENDS Integers, Sequences, FiniteSets, TLC

VARIABLES
    env,        \* the value of the OPENROUTER_API_KEY environment variable
    kind,       \* the client class in use: "sync" or "async"
    client,     \* the client object, NoClient while none exists
    pc,         \* "start", "idle", "streaming", "done", "dead" or "closed"
    op,         \* the last operation invoked, with its arguments
    resp,       \* the server's answer to the last request
    outcome,    \* how the last operation ended: a return or a raise
    pos,        \* streaming: the number of response lines consumed
    yielded,    \* streaming: the items handed to the consumer so far
    sent,       \* the HTTP requests the last operation handed to the transport
    within,     \* the caller is inside a with block of the client
    escaped,    \* the exception that left the caller's with or try statement
    tasks,      \* the calls in flight on one client, each with its own record
    tester,     \* the ResilientModelTester and the run it is in
    conv        \* the ConversationManager

vars ==
    <<env, kind, client, pc, op, resp, outcome, pos, yielded, sent, within,
      escaped, tasks, tester, conv>>

-----------------------------------------------------------------------------
(* Python values *)

PyNone == [t |-> "null"]
PyStr(s) == [t |-> "str", v |-> s]
PyNum(n) == [t |-> "num", v |-> n]
PyList(q) == [t |-> "list", v |-> q]
PyDict(f) == [t |-> "dict", v |-> f]
PyBool(b) == [t |-> "bool", v |-> b]

IsDict(x) == x.t = "dict"
IsList(x) == x.t = "list"
IsStr(x) == x.t = "str"
IsNum(x) == x.t = "num"
HasKey(d, k) == IsDict(d) /\ k \in DOMAIN d.v

\* bool(x): None, "", 0, [] and {} are false
Truthy(x) ==
    CASE x.t = "null" -> FALSE
      [] x.t = "str" -> x.v # ""
      [] x.t = "num" -> x.v # 0
      [] x.t = "list" -> Len(x.v) > 0
      [] x.t = "dict" -> DOMAIN x.v # {}
      [] x.t = "bool" -> x.v
      [] OTHER -> TRUE

\* s.lstrip("/"), s the sequence of the pieces of a path
RECURSIVE LStrip(_)
LStrip(s) == IF Len(s) > 0 /\ s[1] = "/" THEN LStrip(Tail(s)) ELSE s

\* {**d, **e} for the fields d and e of two dicts: e wins where both have
\* the key
DictMerge(d, e) ==
    [k \in DOMAIN d \cup DOMAIN e |-> IF k \in DOMAIN e THEN e[k] ELSE d[k]]

\* d[key] = value
DictSet(d, key, value) ==
    [k \in DOMAIN d \cup {key} |-> IF k = key THEN value ELSE d[k]]

\* a or b
PyOr(a, b) == IF Truthy(a) THEN a ELSE b

\* str(x) as an f-string renders it
PyFormat(x) ==
    CASE x.t = "str" -> x.v
      [] x.t = "null" -> "None"
      [] OTHER -> "<repr>"

-----------------------------------------------------------------------------
(* The error hierarchy *)

OpenRouterErrors ==
    {"OpenRouterError", "APIError", "AuthenticationError", "RateLimitError",
     "ValidationError"}

\* isinstance(e, OpenRouterError)
IsOpenRouterError(e) == e.exc \in OpenRouterErrors

\* the base each class of the hierarchy is declared with
Bases_ValidationErrorApart ==
    [OpenRouterError |-> "Exception", APIError |-> "OpenRouterError",
     AuthenticationError |-> "OpenRouterError",
     RateLimitError |-> "OpenRouterError", ValidationError |-> "Exception"]

Bases ==
    [OpenRouterError |-> "Exception", APIError |-> "OpenRouterError",
     AuthenticationError |-> "OpenRouterError",
     RateLimitError |-> "OpenRouterError",
     ValidationError |-> "OpenRouterError"]

\* issubclass(cls, base)
RECURSIVE IsSubclass(_, _)
IsSubclass(cls, base) ==
    \/ cls = base
    \/ cls \in DOMAIN Bases /\ IsSubclass(Bases[cls], base)

\* cls(message, *args) for a class of the hierarchy: none of the subclasses
\* overrides __init__; args holds the status_code when one is passed
NewError(cls, message, args) ==
    [kind |-> "raise", exc |-> cls, message |-> message,
     status_code |-> IF Len(args) > 0 THEN args[1] ELSE {}]

\* status_code is {} for None and {s} for the status s
OpenRouterError(message, status_code) ==
    [kind |-> "raise", exc |-> "OpenRouterError", message |-> message,
     status_code |-> status_code]
APIError(message, status_code) ==
    [kind |-> "raise", exc |-> "APIError", message |-> message,
     status_code |-> status_code]
AuthenticationError(message, status_code) ==
    [kind |-> "raise", exc |-> "AuthenticationError", message |-> message,
     status_code |-> status_code]
RateLimitError(message, status_code) ==
    [kind |-> "raise", exc |-> "RateLimitError", message |-> message,
     status_code |-> status_code]
ValidationErr(message, status_code) ==
    [kind |-> "raise", exc |-> "ValidationError", message |-> message,
     status_code |-> status_code]

\* exceptions of the interpreter and of the libraries, outside the hierarchy
Foreign(exc) ==
    [kind |-> "raise", exc |-> exc, message |-> <<>>, status_code |-> {}]

Return(value) == [kind |-> "return", value |-> value]
NoOutcome == [kind |-> "none"]

Raised(o) == o.kind = "raise"
Returned(o) == o.kind = "return"

-----------------------------------------------------------------------------
(* The response records (pydantic models).  Each validator takes the fields *)
(* of the dict the record is built from and says whether they validate.    *)

FieldIs(f, k, tag) == k \in DOMAIN f /\ f[k].t = tag
OptFieldIs(f, k, tag) == k \notin DOMAIN f \/ f[k].t \in {tag, "null"}

CreditsDataValid(f) ==
    FieldIs(f, "total_credits", "num") /\ FieldIs(f, "total_usage", "num")

CreditsValid(f) == FieldIs(f, "data", "dict") /\ CreditsDataValid(f.data.v)

Credits(f) ==
    [cls |-> "Credits",
     total_credits |-> f.data.v.total_credits.v,
     total_usage |-> f.data.v.total_usage.v]

\* CreditsData.remaining_credits
CreditsDataRemainingCredits(c) == c.total_credits - c.total_usage

\* CreditsBalance never answering less than zero
CreditsBalance_Clamped(c) ==
    IF CreditsDataRemainingCredits(c) < 0 THEN 0
    ELSE CreditsDataRemainingCredits(c)

\* Credits.balance
CreditsBalance(c) == CreditsDataRemainingCredits(c)

\* Credits.total_purchased
CreditsTotalPurchased(c) == c.total_credits

\* Credits.total_used
CreditsTotalUsed(c) == c.total_usage

ModelDataValid(x) ==
    /\ IsDict(x)
    /\ FieldIs(x.v, "id", "str") /\ FieldIs(x.v, "name", "str")
    /\ OptFieldIs(x.v, "description", "str")
    /\ OptFieldIs(x.v, "context_length", "num")
    /\ OptFieldIs(x.v, "pricing", "dict")
    /\ OptFieldIs(x.v, "top_provider", "dict")

ModelValid(f) ==
    /\ FieldIs(f, "data", "list")
    /\ \A i \in 1..Len(f.data.v) : ModelDataValid(f.data.v[i])

Model(f) ==
    [cls |-> "Model",
     ids |-> [i \in 1..Len(f.data.v) |-> f.data.v[i].v.id.v]]

ChatMessageValid(x) ==
    /\ IsDict(x)
    /\ FieldIs(x.v, "role", "str") /\ FieldIs(x.v, "content", "str")
    /\ OptFieldIs(x.v, "name", "str")

\* a ChatMessage object
ChatMessage(role, content, name) ==
    [t |-> "ChatMessage",
     v |-> [role |-> role, content |-> content, name |-> name]]

\* msg.model_dump(exclude_none=True)
ModelDumpExcludeNone(msg) ==
    PyDict([k \in {k \in DOMAIN msg.v : msg.v[k] # PyNone} |-> msg.v[k]])

ChatCompletionChoiceValid(x) ==
    /\ IsDict(x)
    /\ FieldIs(x.v, "index", "num")
    /\ "message" \in DOMAIN x.v /\ ChatMessageValid(x.v.message)
    /\ OptFieldIs(x.v, "finish_reason", "str")

ChatCompletionUsageValid(f) ==
    /\ FieldIs(f, "prompt_tokens", "num")
    /\ FieldIs(f, "completion_tokens", "num")
    /\ FieldIs(f, "total_tokens", "num")

ChatCompletionValid(f) ==
    /\ FieldIs(f, "id", "str") /\ FieldIs(f, "object", "str")
    /\ FieldIs(f, "created", "num") /\ FieldIs(f, "model", "str")
    /\ FieldIs(f, "choices", "list")
    /\ \A i \in 1..Len(f.choices.v) :
            ChatCompletionChoiceValid(f.choices.v[i])
    /\ \/ "usage" \notin DOMAIN f
       \/ f.usage = PyNone
       \/ IsDict(f.usage) /\ ChatCompletionUsageValid(f.usage.v)

ChatCompletion(f) ==
    [cls |-> "ChatCompletion", id |-> f.id.v,
     choices |-> [i \in 1..Len(f.choices.v) |->
                    [message |-> f.choices.v[i].v.message]]]

\* ChatCompletion.message: the first choice's message, None without choices
ChatCompletionMessage(c) ==
    IF Len(c.choices) > 0 THEN c.choices[1].message ELSE PyNone

\* ChatCompletion.content
ChatCompletionContent(c) ==
    IF Truthy(ChatCompletionMessage(c))
    THEN ChatCompletionMessage(c).v.content
    ELSE PyNone

StreamChoiceValid(x) ==
    /\ IsDict(x)
    /\ FieldIs(x.v, "index", "num") /\ FieldIs(x.v, "delta", "dict")
    /\ OptFieldIs(x.v, "finish_reason", "str")

StreamChunkValid(f) ==
    /\ FieldIs(f, "id", "str") /\ FieldIs(f, "object", "str")
    /\ FieldIs(f, "created", "num") /\ FieldIs(f, "model", "str")
    /\ FieldIs(f, "choices", "list")
    /\ \A i \in 1..Len(f.choices.v) : StreamChoiceValid(f.choices.v[i])

StreamChunk(f) ==
    [cls |-> "StreamChunk", id |-> f.id.v,
     choices |-> [i \in 1..Len(f.choices.v) |->
                    [delta |-> f.choices.v[i].v.delta,
                     finish_reason |->
                        IF "finish_reason" \in DOMAIN f.choices.v[i].v
                        THEN f.choices.v[i].v.finish_reason ELSE PyNone]]]

\* StreamChunk.content
StreamChunkContent(c) ==
    IF Len(c.choices) > 0 /\ Truthy(c.choices[1].delta)
    THEN IF "content" \in DOMAIN c.choices[1].delta.v
         THEN c.choices[1].delta.v.content ELSE PyNone
    ELSE PyNone

\* StreamChunkIsFinished looking at the first choice only
StreamChunkIsFinished_FirstOnly(c) ==
    Len(c.choices) > 0 /\ c.choices[1].finish_reason # PyNone

\* StreamChunk.is_finished
StreamChunkIsFinished(c) ==
    \E i \in 1..Len(c.choices) : c.choices[i].finish_reason # PyNone

-----------------------------------------------------------------------------
(* What the server can answer.  A body is its text and what response.json() *)
(* makes of it: a value, or JSONDecodeError.                               *)

JSONDecodeError == [t |-> "JSONDecodeError"]

Body(text, json) == [text |-> text, json |-> json]

ChatMessageJson(content) ==
    PyDict([role |-> PyStr("assistant"), content |-> PyStr(content)])

ChatCompletionJson(contents) ==
    PyDict([id |-> PyStr("gen-1"), object |-> PyStr("chat.completion"),
            created |-> PyNum(1), model |-> PyStr("test-model"),
            choices |-> PyList([i \in 1..Len(contents) |->
                PyDict([index |-> PyNum(i - 1),
                        message |-> ChatMessageJson(contents[i]),
                        finish_reason |-> PyStr("stop")])])])

Bodies ==
    { Body("Bad request", JSONDecodeError),
      Body("[1]", PyList(<<PyNum(1)>>)),
      Body("{}", PyDict(<<>>)),
      Body("{invalid: response}", PyDict([invalid |-> PyStr("response")])),
      Body("{error: {message: Model not found}}",
           PyDict([error |-> PyDict([message |-> PyStr("Model not found")])])),
      Body("{error: {message: null}}",
           PyDict([error |-> PyDict([message |-> PyNone])])),
      Body("{error: boom}", PyDict([error |-> PyStr("boom")])),
      Body("{error: {}}", PyDict([error |-> PyDict(<<>>)])),
      Body("{data: {total_credits: 10, total_usage: 3}}",
           PyDict([data |-> PyDict([total_credits |-> PyNum(10),
                                    total_usage |-> PyNum(3)])])),
      Body("{data: [{id: m1, name: M1}]}",
           PyDict([data |-> PyList(<<PyDict([id |-> PyStr("m1"),
                                             name |-> PyStr("M1")])>>)])),
      Body("{id: gen-1, ..., choices: [{message: Hi}]}",
           ChatCompletionJson(<<"Hi">>)),
      Body("{id: gen-1, ..., choices: [{message: Hi}, {message: Yo}]}",
           ChatCompletionJson(<<"Hi", "Yo">>)),
      Body("{id: gen-1, ..., choices: [{message: ''}]}",
           ChatCompletionJson(<<"">>)),
      Body("{id: gen-1, ..., choices: []}", ChatCompletionJson(<<>>)) }

Statuses == {200, 204, 302, 399, 400, 401, 404, 429, 500}

\* the transport raised httpx.RequestError: there is no response
RequestError == [transport |-> "error", reason |-> "Connection failed"]

\* no answer yet
NoResponse == [transport |-> "none"]

Response(status_code, body) ==
    [transport |-> "ok", status_code |-> status_code, body |-> body]

Responses ==
    {RequestError} \cup {Response(s, b) : s \in Statuses, b \in Bodies}

-----------------------------------------------------------------------------
(* OpenRouterClient (client/openrouter_client.py) *)

\* SyncInit with the environment taking precedence over the argument
SyncInit_EnvFirst(api_key, environ) ==
    LET key == PyOr(environ, api_key)
    IN  IF ~Truthy(key)
        THEN AuthenticationError(
                <<"API key is required",
                  ". Set OPENROUTER_API_KEY env var or pass api_key parameter.">>,
                {})
        ELSE Return([api_key |-> key,
                     base_url |-> "https://openrouter.ai/api/v1",
                     timeout |-> 30,
                     closed |-> FALSE])

\* __init__(api_key): the new client, or the error construction raises
SyncInit(api_key, environ) ==
    LET key == PyOr(api_key, environ)
    IN  IF ~Truthy(key)
        THEN AuthenticationError(
                <<"API key is required",
                  ". Set OPENROUTER_API_KEY env var or pass api_key parameter.">>,
                {})
        ELSE Return([api_key |-> key,
                     base_url |-> "https://openrouter.ai/api/v1",
                     timeout |-> 30,
                     closed |-> FALSE])

\* SyncErrorDetail without the look into the JSON body
SyncErrorDetail_TextOnly(r) == PyStr(r.body.text)

\* the error_detail of a response with status >= 400
SyncErrorDetail(r) ==
    LET text == PyStr(r.body.text)
        error_data == r.body.json
    IN  IF error_data = JSONDecodeError THEN text
        ELSE IF ~IsDict(error_data) THEN text
        ELSE LET error == IF "error" \in DOMAIN error_data.v
                          THEN error_data.v.error ELSE PyDict(<<>>)
             IN  IF ~IsDict(error) THEN text
                 ELSE IF "message" \in DOMAIN error.v
                      THEN error.v.message ELSE text

\* SyncMakeRequest with "> 400" for ">= 400"
SyncMakeRequest_Above400(r) ==
    IF r.transport = "error"
    THEN OpenRouterError(<<"Request failed", ": ", r.reason>>, {})
    ELSE IF r.status_code = 401
    THEN AuthenticationError(<<"Invalid API key">>, {})
    ELSE IF r.status_code = 429
    THEN RateLimitError(<<"Rate limit exceeded">>, {})
    ELSE IF r.status_code > 400
    THEN APIError(<<"API error: ", PyFormat(SyncErrorDetail(r))>>,
                  {r.status_code})
    ELSE IF r.body.json = JSONDecodeError
    THEN Foreign("JSONDecodeError")
    ELSE Return(r.body.json)

\* SyncMakeRequest without its except clause
SyncMakeRequest_NoExcept(r) ==
    IF r.transport = "error"
    THEN Foreign("RequestError")
    ELSE IF r.status_code = 401
    THEN AuthenticationError(<<"Invalid API key">>, {})
    ELSE IF r.status_code = 429
    THEN RateLimitError(<<"Rate limit exceeded">>, {})
    ELSE IF r.status_code >= 400
    THEN APIError(<<"API error: ", PyFormat(SyncErrorDetail(r))>>,
                  {r.status_code})
    ELSE IF r.body.json = JSONDecodeError
    THEN Foreign("JSONDecodeError")
    ELSE Return(r.body.json)

\* _make_request: Return(the parsed body) or the exception that leaves it
SyncMakeRequest(r) ==
    IF r.transport = "error"
    THEN OpenRouterError(<<"Request failed", ": ", r.reason>>, {})
    ELSE IF r.status_code = 401
    THEN AuthenticationError(<<"Invalid API key">>, {})
    ELSE IF r.status_code = 429
    THEN RateLimitError(<<"Rate limit exceeded">>, {})
    ELSE IF r.status_code >= 400
    THEN APIError(<<"API error: ", PyFormat(SyncErrorDetail(r))>>,
                  {r.status_code})
    ELSE IF r.body.json = JSONDecodeError
    THEN Foreign("JSONDecodeError")
    ELSE Return(r.body.json)

\* chat_completion: messages_data, each ChatMessage object dumped, each
\* dict passed as it is
SyncMessagesData(messages) ==
    [i \in 1..Len(messages) |->
        IF messages[i].t = "ChatMessage" THEN ModelDumpExcludeNone(messages[i])
        ELSE messages[i]]

\* SyncChatCompletionData dropping the arguments that are false, not only
\* those that are None
SyncChatCompletionData_Falsy(a) ==
    LET data0 == DictMerge([model |-> a.model,
                            messages |-> PyList(SyncMessagesData(a.messages))],
                           a.kwargs)
        data1 == IF Truthy(a.max_tokens)
                 THEN DictSet(data0, "max_tokens", a.max_tokens) ELSE data0
        data2 == IF Truthy(a.temperature)
                 THEN DictSet(data1, "temperature", a.temperature) ELSE data1
        data3 == IF Truthy(a.top_p)
                 THEN DictSet(data2, "top_p", a.top_p) ELSE data2
    IN  PyDict(IF Truthy(a.stream) THEN DictSet(data3, "stream", a.stream)
               ELSE data3)

\* chat_completion: the request body built from the arguments a
SyncChatCompletionData(a) ==
    LET data0 == DictMerge([model |-> a.model,
                            messages |-> PyList(SyncMessagesData(a.messages))],
                           a.kwargs)
        data1 == IF a.max_tokens # PyNone
                 THEN DictSet(data0, "max_tokens", a.max_tokens) ELSE data0
        data2 == IF a.temperature # PyNone
                 THEN DictSet(data1, "temperature", a.temperature) ELSE data1
        data3 == IF a.top_p # PyNone
                 THEN DictSet(data2, "top_p", a.top_p) ELSE data2
    IN  PyDict(IF Truthy(a.stream) THEN DictSet(data3, "stream", a.stream)
               ELSE data3)

\* the request chat_completion hands to the transport for the arguments a
SyncChatCompletionSent(c, a) ==
    <<[method |-> "POST",
       url |-> <<c.base_url, "/">> \o LStrip(<<"/", "chat/completions">>),
       json |-> SyncChatCompletionData(a)]>>

\* chat_completion
SyncChatCompletion(r) ==
    LET response_data == SyncMakeRequest(r)
    IN  IF Raised(response_data) THEN response_data
        ELSE IF ~IsDict(response_data.value) THEN Foreign("TypeError")
        ELSE IF ~ChatCompletionValid(response_data.value.v)
        THEN ValidationErr(<<"Invalid response data", ": ", "<errors>">>, {})
        ELSE Return(ChatCompletion(response_data.value.v))

\* get_models
SyncGetModels(r) ==
    LET response_data == SyncMakeRequest(r)
    IN  IF Raised(response_data) THEN response_data
        ELSE IF ~IsDict(response_data.value) THEN Foreign("TypeError")
        ELSE IF ~ModelValid(response_data.value.v)
        THEN ValidationErr(<<"Invalid response data", ": ", "<errors>">>, {})
        ELSE Return(Model(response_data.value.v))

\* SyncGetBalance without its except clause
SyncGetBalance_NoExcept(r) ==
    LET response_data == SyncMakeRequest(r)
    IN  IF Raised(response_data) THEN response_data
        ELSE IF ~IsDict(response_data.value) THEN Foreign("TypeError")
        ELSE IF ~CreditsValid(response_data.value.v)
        THEN Foreign("pydantic.ValidationError")
        ELSE Return(Credits(response_data.value.v))

\* get_balance
SyncGetBalance(r) ==
    LET response_data == SyncMakeRequest(r)
    IN  IF Raised(response_data) THEN response_data
        ELSE IF ~IsDict(response_data.value) THEN Foreign("TypeError")
        ELSE IF ~CreditsValid(response_data.value.v)
        THEN ValidationErr(<<"Invalid response data", ": ", "<errors>">>, {})
        ELSE Return(Credits(response_data.value.v))

\* SyncSimpleCompletion returning completion.content as it is
SyncSimpleCompletion_NoOr(r) ==
    LET completion == SyncChatCompletion(r)
    IN  IF Raised(completion) THEN completion
        ELSE Return(ChatCompletionContent(completion.value))

\* simple_completion
SyncSimpleCompletion(r) ==
    LET completion == SyncChatCompletion(r)
    IN  IF Raised(completion) THEN completion
        ELSE Return(PyOr(ChatCompletionContent(completion.value), PyStr("")))

\* __enter__: the value bound by "with ... as"
SyncEnter(c) == c

\* close(): the httpx client is closed
SyncClose(c) == [c EXCEPT !.closed = TRUE]

\* SyncExit answering True, which makes the with statement swallow exc
SyncExit_Suppress(c, exc) == [client |-> SyncClose(c), result |-> PyNum(1)]

\* __exit__(exc_type, exc_val, exc_tb): the client afterwards and the value
\* the with statement gets back
SyncExit(c, exc) == [client |-> SyncClose(c), result |-> PyNone]

\* the method and endpoint a non-streaming method passes to _make_request
SyncEndpoint(name) ==
    CASE name = "get_models" -> [method |-> "GET", endpoint |-> <<"/", "models">>]
      [] name = "get_balance" ->
            [method |-> "GET", endpoint |-> <<"/", "credits">>]
      [] OTHER -> [method |-> "POST", endpoint |-> <<"/", "chat/completions">>]

\* SyncSent sending the request once more when the transport failed
SyncSent_Retry(c, name, r) ==
    LET request == [method |-> SyncEndpoint(name).method,
                    url |-> <<c.base_url, "/">>
                            \o LStrip(SyncEndpoint(name).endpoint)]
    IN  IF r.transport = "error" THEN <<request, request>> ELSE <<request>>

\* the requests self._client.request is called with during one call of a
\* non-streaming method that the server answers with r
SyncSent(c, name, r) ==
    <<[method |-> SyncEndpoint(name).method,
       url |-> <<c.base_url, "/">> \o LStrip(SyncEndpoint(name).endpoint)]>>

\* the public request methods the class defines
SyncMethods ==
    {"chat_completion", "get_models", "get_balance", "simple_completion"}

\* a non-streaming method call answered by r
SyncCall(name, r) ==
    CASE name = "chat_completion" -> SyncChatCompletion(r)
      [] name = "get_models" -> SyncGetModels(r)
      [] name = "get_balance" -> SyncGetBalance(r)
      [] name = "simple_completion" -> SyncSimpleCompletion(r)

-----------------------------------------------------------------------------
(* AsyncOpenRouterClient (client/async_client.py) *)

\* __init__(api_key): the new client, or the error construction raises
AsyncInit(api_key, environ) ==
    LET key == PyOr(api_key, environ)
    IN  IF ~Truthy(key)
        THEN AuthenticationError(
                <<"API key is required",
                  ". Set OPENROUTER_API_KEY env var or pass api_key parameter.">>,
                {})
        ELSE Return([api_key |-> key,
                     base_url |-> "https://openrouter.ai/api/v1",
                     timeout |-> 30,
                     closed |-> FALSE])

\* the error_detail of a response with status >= 400
AsyncErrorDetail(r) ==
    LET text == PyStr(r.body.text)
        error_data == r.body.json
    IN  IF error_data = JSONDecodeError THEN text
        ELSE IF ~IsDict(error_data) THEN text
        ELSE LET error == IF "error" \in DOMAIN error_data.v
                          THEN error_data.v.error ELSE PyDict(<<>>)
             IN  IF ~IsDict(error) THEN text
                 ELSE IF "message" \in DOMAIN error.v
                      THEN error.v.message ELSE text

\* _make_request: Return(the parsed body) or the exception that leaves it
AsyncMakeRequest(r) ==
    IF r.transport = "error"
    THEN OpenRouterError(<<"Request failed", ": ", r.reason>>, {})
    ELSE IF r.status_code = 401
    THEN AuthenticationError(<<"Invalid API key">>, {})
    ELSE IF r.status_code = 429
    THEN RateLimitError(<<"Rate limit exceeded">>, {})
    ELSE IF r.status_code >= 400
    THEN APIError(<<"API error: ", PyFormat(AsyncErrorDetail(r))>>,
                  {r.status_code})
    ELSE IF r.body.json = JSONDecodeError
    THEN Foreign("JSONDecodeError")
    ELSE Return(r.body.json)

\* chat_completion: messages_data, each ChatMessage object dumped, each
\* dict passed as it is
AsyncMessagesData(messages) ==
    [i \in 1..Len(messages) |->
        IF messages[i].t = "ChatMessage" THEN ModelDumpExcludeNone(messages[i])
        ELSE messages[i]]

\* chat_completion: the request body built from the arguments a
AsyncChatCompletionData(a) ==
    LET data0 == DictMerge([model |-> a.model,
                            messages |-> PyList(AsyncMessagesData(a.messages))],
                           a.kwargs)
        data1 == IF a.max_tokens # PyNone
                 THEN DictSet(data0, "max_tokens", a.max_tokens) ELSE data0
        data2 == IF a.temperature # PyNone
                 THEN DictSet(data1, "temperature", a.temperature) ELSE data1
        data3 == IF a.top_p # PyNone
                 THEN DictSet(data2, "top_p", a.top_p) ELSE data2
    IN  PyDict(IF Truthy(a.stream) THEN DictSet(data3, "stream", a.stream)
               ELSE data3)

\* the request chat_completion hands to the transport for the arguments a
AsyncChatCompletionSent(c, a) ==
    <<[method |-> "POST",
       url |-> <<c.base_url, "/">> \o LStrip(<<"/", "chat/completions">>),
       json |-> AsyncChatCompletionData(a)]>>

\* chat_completion_stream: the request body built from the arguments a,
\* which have no stream argument
AsyncChatCompletionStreamData(a) ==
    LET data0 == DictMerge([model |-> a.model,
                            messages |-> PyList(AsyncMessagesData(a.messages)),
                            stream |-> PyBool(TRUE)],
                           a.kwargs)
        data1 == IF a.max_tokens # PyNone
                 THEN DictSet(data0, "max_tokens", a.max_tokens) ELSE data0
        data2 == IF a.temperature # PyNone
                 THEN DictSet(data1, "temperature", a.temperature) ELSE data1
    IN  PyDict(IF a.top_p # PyNone
               THEN DictSet(data2, "top_p", a.top_p) ELSE data2)

\* the request chat_completion_stream opens the stream with for the
\* arguments a
AsyncChatCompletionStreamSent(c, a) ==
    <<[method |-> "POST", url |-> <<c.base_url, "/", "chat/completions">>,
       json |-> AsyncChatCompletionStreamData(a)]>>

\* chat_completion
AsyncChatCompletion(r) ==
    LET response_data == AsyncMakeRequest(r)
    IN  IF Raised(response_data) THEN response_data
        ELSE IF ~IsDict(response_data.value) THEN Foreign("TypeError")
        ELSE IF ~ChatCompletionValid(response_data.value.v)
        THEN ValidationErr(<<"Invalid response data", ": ", "<errors>">>, {})
        ELSE Return(ChatCompletion(response_data.value.v))

\* get_models
AsyncGetModels(r) ==
    LET response_data == AsyncMakeRequest(r)
    IN  IF Raised(response_data) THEN response_data
        ELSE IF ~IsDict(response_data.value) THEN Foreign("TypeError")
        ELSE IF ~ModelValid(response_data.value.v)
        THEN ValidationErr(<<"Invalid response data", ": ", "<errors>">>, {})
        ELSE Return(Model(response_data.value.v))

\* get_balance
AsyncGetBalance(r) ==
    LET response_data == AsyncMakeRequest(r)
    IN  IF Raised(response_data) THEN response_data
        ELSE IF ~IsDict(response_data.value) THEN Foreign("TypeError")
        ELSE IF ~CreditsValid(response_data.value.v)
        THEN ValidationErr(<<"Invalid response data", ": ", "<errors>">>, {})
        ELSE Return(Credits(response_data.value.v))

\* simple_completion
AsyncSimpleCompletion(r) ==
    LET completion == AsyncChatCompletion(r)
    IN  IF Raised(completion) THEN completion
        ELSE Return(PyOr(ChatCompletionContent(completion.value), PyStr("")))

\* __aenter__: the value bound by "async with ... as"
AsyncEnter(c) == c

\* close(): the httpx client is closed
AsyncClose(c) == [c EXCEPT !.closed = TRUE]

\* __aexit__(exc_type, exc_val, exc_tb): the client afterwards and the value
\* the async with statement gets back
AsyncExit(c, exc) == [client |-> AsyncClose(c), result |-> PyNone]

\* the method and endpoint a non-streaming method passes to _make_request
AsyncEndpoint(name) ==
    CASE name = "get_models" -> [method |-> "GET", endpoint |-> <<"/", "models">>]
      [] name = "get_balance" ->
            [method |-> "GET", endpoint |-> <<"/", "credits">>]
      [] OTHER -> [method |-> "POST", endpoint |-> <<"/", "chat/completions">>]

\* the requests self._client.request is called with during one call of a
\* non-streaming method that the server answers with r
AsyncSent(c, name, r) ==
    <<[method |-> AsyncEndpoint(name).method,
       url |-> <<c.base_url, "/">> \o LStrip(AsyncEndpoint(name).endpoint)]>>

\* Awaited handing every caller the latest answer the transport has
Awaited_Latest(transport, req) ==
    LET answered == {k \in 1..Len(transport) :
                        transport[k].answer # NoResponse}
    IN  IF answered = {} THEN NoResponse
        ELSE transport[CHOOSE k \in answered :
                            \A j \in answered : j <= k].answer

\* await self._client.request(...) / async with self._client.stream(...):
\* the coroutine that sent request req resumes with the answer to it
Awaited(transport, req) == transport[req].answer

\* the public request methods the class defines
AsyncMethods ==
    {"chat_completion", "get_models", "get_balance", "simple_completion",
     "chat_completion_stream", "simple_completion_stream"}

\* a non-streaming method call answered by r
AsyncCall(name, r) ==
    CASE name = "chat_completion" -> AsyncChatCompletion(r)
      [] name = "get_models" -> AsyncGetModels(r)
      [] name = "get_balance" -> AsyncGetBalance(r)
      [] name = "simple_completion" -> AsyncSimpleCompletion(r)

-----------------------------------------------------------------------------
(* Streaming.  A response line is the sequence of its tokens; the text     *)
(* "data: " is the two tokens "data:" and " ".                             *)

DataPrefix == <<"data:", " ">>

\* line.startswith(prefix)
StartsWith(line, prefix) ==
    Len(line) >= Len(prefix) /\ SubSeq(line, 1, Len(prefix)) = prefix

\* line[n:]
DropFirst(line, n) == SubSeq(line, n + 1, Len(line))

\* s.strip()
RECURSIVE Strip(_)
Strip(s) ==
    IF Len(s) > 0 /\ s[1] = " " THEN Strip(Tail(s))
    ELSE IF Len(s) > 0 /\ s[Len(s)] = " " THEN Strip(SubSeq(s, 1, Len(s) - 1))
    ELSE s

StreamChunkJson(delta, finish_reason) ==
    PyDict([id |-> PyStr("gen-1"), object |-> PyStr("chat.completion.chunk"),
            created |-> PyNum(1), model |-> PyStr("test-model"),
            choices |-> PyList(<<PyDict([index |-> PyNum(0),
                                         delta |-> delta,
                                         finish_reason |-> finish_reason])>>)])

\* json.loads(s): the value of a JSON text, JSONDecodeError for anything else;
\* whitespace around the text is ignored
JsonLoads(s) ==
    LET text == Strip(s)
    IN  IF Len(text) # 1 THEN JSONDecodeError
        ELSE CASE text[1] = "{chunk: Hello}" ->
                    StreamChunkJson(PyDict([content |-> PyStr("Hello")]), PyNone)
               [] text[1] = "{chunk: world!}" ->
                    StreamChunkJson(PyDict([content |-> PyStr(" world!")]), PyNone)
               [] text[1] = "{chunk: ''}" ->
                    StreamChunkJson(PyDict([content |-> PyStr("")]), PyNone)
               [] text[1] = "{chunk: stop}" ->
                    StreamChunkJson(PyDict(<<>>), PyStr("stop"))
               [] text[1] = "{invalid: response}" ->
                    PyDict([invalid |-> PyStr("response")])
               [] text[1] = "[1]" -> PyList(<<PyNum(1)>>)
               [] OTHER -> JSONDecodeError

Lines ==
    { <<"data:", " ", "{chunk: Hello}">>,
      <<"data:", " ", "{chunk: world!}">>,
      <<"data:", " ", "{chunk: ''}">>,
      <<"data:", " ", "{chunk: stop}">>,
      <<"data:", " ", "[DONE]">>,
      <<"data:", " ", " ", "[DONE]", " ">>,
      <<"data:", " ", "{bad">>,
      <<"data:", " ", "{invalid: response}">>,
      <<"data:", " ", "[1]">>,
      <<"data:", "{chunk: Hello}">>,
      << >> }

\* the longest streamed response
MaxLines == 3

LineSeqs == UNION {[1..n -> Lines] : n \in 0..MaxLines}

StreamResponse(status_code, body, lines) ==
    [transport |-> "ok", status_code |-> status_code, body |-> body,
     lines |-> lines]

StreamBodies ==
    { Body("Bad request", JSONDecodeError),
      Body("{error: {message: Model not found}}",
           PyDict([error |-> PyDict([message |-> PyStr("Model not found")])])) }

StreamResponses ==
    {RequestError}
    \cup {StreamResponse(s, b, q) :
            s \in {x \in Statuses : x >= 400}, b \in StreamBodies,
            q \in {<<>>, <<DataPrefix \o <<"{chunk: Hello}">>,
                            DataPrefix \o <<"[DONE]">>>>}}
    \cup {StreamResponse(s, Body("", JSONDecodeError), q) :
            s \in {200, 399}, q \in LineSeqs}

\* AsyncStreamOpen going on to the lines whatever the status
AsyncStreamOpen_NoStatusCheck(r) ==
    IF r.transport = "error"
    THEN OpenRouterError(<<"Async streaming request failed", ": ", r.reason>>,
                         {})
    ELSE NoOutcome

\* chat_completion_stream up to the first line: the error the status check
\* or the transport raises, NoOutcome when the line loop is entered
AsyncStreamOpen(r) ==
    IF r.transport = "error"
    THEN OpenRouterError(<<"Async streaming request failed", ": ", r.reason>>,
                         {})
    ELSE IF r.status_code = 401
    THEN AuthenticationError(<<"Invalid API key">>, {})
    ELSE IF r.status_code = 429
    THEN RateLimitError(<<"Rate limit exceeded">>, {})
    ELSE IF r.status_code >= 400
    THEN APIError(<<"API error: ", r.body.text>>, {r.status_code})
    ELSE NoOutcome

\* AsyncStreamLine ending the stream at a payload that is not JSON
AsyncStreamLine_BreakOnBadJson(line) ==
    IF ~StartsWith(line, DataPrefix) THEN [do |-> "continue"]
    ELSE LET data_str == DropFirst(line, Len(DataPrefix))
         IN  IF Strip(data_str) = <<"[DONE]">> THEN [do |-> "break"]
             ELSE LET chunk_data == JsonLoads(data_str)
                  IN  IF chunk_data = JSONDecodeError THEN [do |-> "break"]
                      ELSE IF ~IsDict(chunk_data)
                      THEN [do |-> "raise", exc |-> Foreign("TypeError")]
                      ELSE IF ~StreamChunkValid(chunk_data.v)
                      THEN [do |-> "continue"]
                      ELSE [do |-> "yield",
                            chunk |-> StreamChunk(chunk_data.v)]

\* AsyncStreamLine comparing the payload with the sentinel without strip()
AsyncStreamLine_NoStrip(line) ==
    IF ~StartsWith(line, DataPrefix) THEN [do |-> "continue"]
    ELSE LET data_str == DropFirst(line, Len(DataPrefix))
         IN  IF data_str = <<"[DONE]">> THEN [do |-> "break"]
             ELSE LET chunk_data == JsonLoads(data_str)
                  IN  IF chunk_data = JSONDecodeError THEN [do |-> "continue"]
                      ELSE IF ~IsDict(chunk_data)
                      THEN [do |-> "raise", exc |-> Foreign("TypeError")]
                      ELSE IF ~StreamChunkValid(chunk_data.v)
                      THEN [do |-> "continue"]
                      ELSE [do |-> "yield",
                            chunk |-> StreamChunk(chunk_data.v)]

\* the request chat_completion_stream opens the stream with
AsyncStreamSent(c) ==
    <<[method |-> "POST", url |-> <<c.base_url, "/", "chat/completions">>]>>

\* chat_completion_stream, one pass of the line loop: what the line makes
\* the generator do
AsyncStreamLine(line) ==
    IF ~StartsWith(line, DataPrefix) THEN [do |-> "continue"]
    ELSE LET data_str == DropFirst(line, Len(DataPrefix))
         IN  IF Strip(data_str) = <<"[DONE]">> THEN [do |-> "break"]
             ELSE LET chunk_data == JsonLoads(data_str)
                  IN  IF chunk_data = JSONDecodeError THEN [do |-> "continue"]
                      ELSE IF ~IsDict(chunk_data)
                      THEN [do |-> "raise", exc |-> Foreign("TypeError")]
                      ELSE IF ~StreamChunkValid(chunk_data.v)
                      THEN [do |-> "continue"]
                      ELSE [do |-> "yield",
                            chunk |-> StreamChunk(chunk_data.v)]

\* simple_completion_stream: what it passes on of a chunk it is handed
AsyncSimpleStreamYield(chunk) ==
    IF Truthy(StreamChunkContent(chunk))
    THEN <<StreamChunkContent(chunk)>> ELSE <<>>

-----------------------------------------------------------------------------
(* The state machine *)

\* no call in flight, no tester and no conversation manager made
NoTasks == <<>>
NoTester == [made |-> FALSE]
NoConversation == [made |-> FALSE]

Kinds == {"sync", "async"}

\* os.getenv("OPENROUTER_API_KEY"): None when the variable is not set
Environs == {PyNone, PyStr(""), PyStr("env-key")}

\* the api_key argument of the constructors
ApiKeys == {PyNone, PyStr(""), PyStr("test-key")}

NoClient == [api_key |-> PyNone, closed |-> TRUE]
NoOp == [name |-> "none", arg |-> PyNone]

NonStreamOps ==
    {"chat_completion", "get_models", "get_balance", "simple_completion"}
StreamOps == {"chat_completion_stream", "simple_completion_stream"}

Methods(k) == IF k = "sync" THEN SyncMethods ELSE AsyncMethods

Init ==
    /\ env \in Environs
    /\ kind \in Kinds
    /\ client = NoClient
    /\ pc = "start"
    /\ op = NoOp
    /\ resp = NoResponse
    /\ outcome = NoOutcome
    /\ pos = 0
    /\ yielded = <<>>
    /\ sent = <<>>
    /\ within = FALSE
    /\ escaped = NoOutcome
    /\ tasks = NoTasks
    /\ tester = NoTester
    /\ conv = NoConversation

\* OpenRouterClient(api_key) or AsyncOpenRouterClient(api_key)
Construct ==
    /\ pc = "start"
    /\ \E api_key \in ApiKeys :
        LET made == IF kind = "sync" THEN SyncInit(api_key, env)
                                     ELSE AsyncInit(api_key, env)
        IN  /\ op' = [name |-> "__init__", arg |-> api_key]
            /\ outcome' = made
            /\ IF Raised(made)
               THEN pc' = "dead" /\ client' = client
               ELSE pc' = "idle" /\ client' = made.value
    /\ UNCHANGED <<env, kind, resp, pos, yielded, sent, within, escaped,
                    tasks, tester, conv>>

\* client.<name>(...) for a non-streaming method, the server answering r
Request(name) ==
    /\ pc = "idle"
    /\ name \in NonStreamOps \cap Methods(kind)
    /\ \E r \in Responses :
        /\ resp' = r
        /\ outcome' = IF kind = "sync" THEN SyncCall(name, r)
                                       ELSE AsyncCall(name, r)
        /\ sent' = IF kind = "sync" THEN SyncSent(client, name, r)
                                    ELSE AsyncSent(client, name, r)
    /\ op' = [name |-> name, arg |-> PyNone]
    /\ pc' = "done"
    /\ UNCHANGED <<env, kind, client, pos, yielded, within, escaped,
                    tasks, tester, conv>>

\* the caller is through with the result of the call and may call again
Discard ==
    /\ pc = "done"
    /\ pc' = "idle"
    /\ op' = NoOp
    /\ resp' = NoResponse
    /\ outcome' = NoOutcome
    /\ pos' = 0
    /\ yielded' = <<>>
    /\ sent' = <<>>
    /\ UNCHANGED <<env, kind, client, within, escaped,
                    tasks, tester, conv>>

\* what a with block can end with: nothing, the error of the call it just
\* made, or an error of its own
BlockExits ==
    {NoOutcome, Foreign("ValueError")}
        \cup (IF pc = "done" /\ Raised(outcome) THEN {outcome} ELSE {})

\* with client: / async with client: the block is entered
Enter ==
    /\ pc = "idle"
    /\ ~within
    /\ within' = TRUE
    /\ client' = IF kind = "sync" THEN SyncEnter(client) ELSE AsyncEnter(client)
    /\ UNCHANGED <<env, kind, pc, op, resp, outcome, pos, yielded, sent,
                    escaped,
                    tasks, tester, conv>>

\* the block is left, normally or by exc: the with statement calls __exit__
\* and re-raises exc unless __exit__ answered a true value
Exit ==
    /\ within
    /\ pc \in {"idle", "done"}
    /\ \E exc \in BlockExits :
        LET left == IF kind = "sync" THEN SyncExit(client, exc)
                                     ELSE AsyncExit(client, exc)
        IN  /\ client' = left.client
            /\ escaped' = IF Truthy(left.result) THEN NoOutcome ELSE exc
            /\ op' = [name |-> "__exit__", arg |-> exc]
    /\ within' = FALSE
    /\ pc' = "closed"
    /\ UNCHANGED <<env, kind, resp, outcome, pos, yielded, sent,
                    tasks, tester, conv>>

Next ==
    \/ Construct
    \/ \E name \in NonStreamOps : Request(name)
    \/ Discard
    \/ Enter
    \/ Exit

Spec == Init /\ [][Next]_vars

-----------------------------------------------------------------------------
(* The state machine of a streamed completion, on a constructed client *)

StreamInit ==
    /\ env = PyNone
    /\ kind \in Kinds
    /\ client = IF kind = "sync" THEN SyncInit(PyStr("test-key"), env).value
                                 ELSE AsyncInit(PyStr("test-key"), env).value
    /\ pc = "idle"
    /\ op = NoOp
    /\ resp = NoResponse
    /\ outcome = NoOutcome
    /\ pos = 0
    /\ yielded = <<>>
    /\ sent = <<>>
    /\ within = FALSE
    /\ escaped = NoOutcome
    /\ tasks = NoTasks
    /\ tester = NoTester
    /\ conv = NoConversation

\* client.<name>(...) for a streaming method the class does not define:
\* the attribute lookup fails and no request is sent
StreamUndefined(name) ==
    /\ pc = "idle"
    /\ name \in StreamOps \ Methods(kind)
    /\ \E r \in StreamResponses : resp' = r
    /\ op' = [name |-> name, arg |-> PyNone]
    /\ outcome' = Foreign("AttributeError")
    /\ pos' = 0
    /\ yielded' = <<>>
    /\ sent' = <<>>
    /\ pc' = "done"
    /\ UNCHANGED <<env, kind, client, within, escaped,
                    tasks, tester, conv>>

\* the consumer asks for the first item: the request is sent and the status
\* of the response is checked
StreamOpen(name) ==
    /\ pc = "idle"
    /\ name \in StreamOps \cap Methods(kind)
    /\ \E r \in StreamResponses :
        /\ resp' = r
        /\ outcome' = AsyncStreamOpen(r)
        /\ pc' = IF Raised(AsyncStreamOpen(r)) THEN "done" ELSE "streaming"
    /\ op' = [name |-> name, arg |-> PyNone]
    /\ pos' = 0
    /\ yielded' = <<>>
    /\ sent' = AsyncStreamSent(client)
    /\ UNCHANGED <<env, kind, client, within, escaped,
                    tasks, tester, conv>>

\* the line loop reads the next line of the response
StreamLine ==
    /\ pc = "streaming"
    /\ pos < Len(resp.lines)
    /\ LET step == AsyncStreamLine(resp.lines[pos + 1])
       IN  /\ pos' = pos + 1
           /\ yielded' =
                IF step.do # "yield" THEN yielded
                ELSE IF op.name = "simple_completion_stream"
                THEN yielded \o AsyncSimpleStreamYield(step.chunk)
                ELSE Append(yielded, step.chunk)
           /\ outcome' = CASE step.do = "break" -> Return(PyNone)
                           [] step.do = "raise" -> step.exc
                           [] OTHER -> outcome
           /\ pc' = IF step.do \in {"break", "raise"} THEN "done"
                    ELSE "streaming"
    /\ UNCHANGED <<env, kind, client, op, resp, sent, within, escaped,
                    tasks, tester, conv>>

\* the response has no more lines: the generator is exhausted
StreamEnd ==
    /\ pc = "streaming"
    /\ pos = Len(resp.lines)
    /\ pc' = "done"
    /\ outcome' = Return(PyNone)
    /\ UNCHANGED <<env, kind, client, op, resp, pos, yielded, sent, within,
                    escaped,
                    tasks, tester, conv>>

StreamNext ==
    \/ \E name \in StreamOps : StreamUndefined(name)
    \/ \E name \in StreamOps : StreamOpen(name)
    \/ StreamLine
    \/ StreamEnd
    \/ Discard

StreamSpec == StreamInit /\ [][StreamNext]_vars

-----------------------------------------------------------------------------
(* Properties *)

\* the message has the piece among the pieces it was built from
Contains(message, piece) == \E i \in 1..Len(message) : message[i] = piece

NonStreamDone == pc = "done" /\ op.name \in NonStreamOps
StreamDone == pc = "done" /\ op.name \in StreamOps

\* C1: every status a non-streaming operation gets is mapped as follows:
\* 401 raises AuthenticationError("Invalid API key"), 429 raises
\* RateLimitError("Rate limit exceeded"), any other status >= 400 raises
\* APIError carrying the status, and a status < 400 raises none of the three
\* and the body is parsed into the operation's result.
C1_StatusMapping ==
    NonStreamDone /\ resp.transport = "ok" =>
        LET s == resp.status_code
        IN  /\ s = 401 =>
                /\ Raised(outcome) /\ outcome.exc = "AuthenticationError"
                /\ outcome.message = <<"Invalid API key">>
            /\ s = 429 =>
                /\ Raised(outcome) /\ outcome.exc = "RateLimitError"
                /\ outcome.message = <<"Rate limit exceeded">>
            /\ s >= 400 /\ s \notin {401, 429} =>
                /\ Raised(outcome) /\ outcome.exc = "APIError"
                /\ outcome.status_code = {s}
            /\ s < 400 =>
                /\ Raised(outcome) =>
                    outcome.exc \notin
                        {"AuthenticationError", "RateLimitError", "APIError"}
                /\ op.name = "get_balance" /\ IsDict(resp.body.json)
                        /\ CreditsValid(resp.body.json.v) =>
                    /\ Returned(outcome) /\ outcome.value.cls = "Credits"
                    /\ outcome.value.total_credits = 10
                /\ op.name = "get_models" /\ IsDict(resp.body.json)
                        /\ ModelValid(resp.body.json.v) =>
                    /\ Returned(outcome) /\ outcome.value.cls = "Model"
                    /\ outcome.value.ids = <<"m1">>
                /\ op.name = "chat_completion" /\ IsDict(resp.body.json)
                        /\ ChatCompletionValid(resp.body.json.v) =>
                    /\ Returned(outcome)
                    /\ outcome.value.cls = "ChatCompletion"
                    /\ outcome.value.id = "gen-1"

\* C1 witness: a 404 has been answered with APIError carrying 404
C1_Witness ==
    /\ NonStreamDone /\ resp.transport = "ok" /\ resp.status_code = 404
    /\ Raised(outcome) /\ outcome.exc = "APIError"
    /\ outcome.status_code = {404}

\* a constructor argument or environment value that holds a key: a string
\* that is not empty
IsKey(x) == IsStr(x) /\ x.v # ""

\* C2: constructing either client takes the api_key argument as the key
\* when one is given (a non-empty string), otherwise the value of
\* OPENROUTER_API_KEY; when neither holds a key the construction raises
\* AuthenticationError("API key is required ...") and no client exists.
C2_ApiKeyResolution ==
    /\ pc \in {"start", "dead"} => client = NoClient
    /\ op.name = "__init__" =>
        /\ IsKey(op.arg) =>
            pc = "idle" /\ Returned(outcome) /\ client.api_key = op.arg
        /\ ~IsKey(op.arg) /\ IsKey(env) =>
            pc = "idle" /\ Returned(outcome) /\ client.api_key = env
        /\ ~IsKey(op.arg) /\ ~IsKey(env) =>
            /\ pc = "dead" /\ client = NoClient
            /\ Raised(outcome) /\ outcome.exc = "AuthenticationError"
            /\ outcome.message[1] = "API key is required"

\* C2 witness: a client was built with an argument while the environment
\* held another key, and the argument won
C2_Witness ==
    /\ op.name = "__init__" /\ pc = "idle"
    /\ op.arg = PyStr("test-key") /\ env = PyStr("env-key")
    /\ client.api_key = PyStr("test-key")

\* C3: whatever the server answers, a failure of get_balance, get_models,
\* chat_completion or simple_completion reaches the caller as an
\* OpenRouterError or one of its subclasses.
C3_OnlyOpenRouterErrors ==
    NonStreamDone /\ Raised(outcome) => IsOpenRouterError(outcome)

\* error.message of a JSON object body, where it has one
HasErrorMessage(json) ==
    /\ HasKey(json, "error")
    /\ HasKey(json.v.error, "message")

\* C9: the APIError raised for a status >= 400 other than 401 and 429 has
\* in its message the error.message of a JSON object body that holds one,
\* and the raw text of the response otherwise.
C9_ErrorDetail ==
    /\ NonStreamDone /\ resp.transport = "ok"
    /\ resp.status_code >= 400 /\ resp.status_code \notin {401, 429}
    => /\ Raised(outcome) /\ outcome.exc = "APIError"
       /\ IF HasErrorMessage(resp.body.json)
          THEN Contains(outcome.message,
                        PyFormat(resp.body.json.v.error.v.message))
          ELSE Contains(outcome.message, resp.body.text)

\* C9 witness: a 400 with the body {"error": {"message": "Model not found"}}
\* has raised an APIError that says "Model not found"
C9_Witness ==
    /\ NonStreamDone /\ resp.transport = "ok" /\ resp.status_code = 400
    /\ HasErrorMessage(resp.body.json)
    /\ Raised(outcome) /\ Contains(outcome.message, "Model not found")

\* C10: when the transport fails with a request error, a non-streaming
\* operation raises OpenRouterError itself, with a message that starts with
\* "Request failed", and returns nothing.
C10_RequestFailed ==
    NonStreamDone /\ resp.transport = "error" =>
        /\ Raised(outcome) /\ outcome.exc = "OpenRouterError"
        /\ outcome.message[1] = "Request failed"

\* C10 witness: a call whose transport failed has ended in OpenRouterError
C10_Witness ==
    /\ NonStreamDone /\ resp.transport = "error"
    /\ Raised(outcome) /\ outcome.exc = "OpenRouterError"

-----------------------------------------------------------------------------
(* Properties of the streamed completions *)

IsDataLine(line) == StartsWith(line, DataPrefix)
Payload(line) == DropFirst(line, Len(DataPrefix))

\* a "data: " line whose payload, whitespace aside, is [DONE]
IsSentinel(line) == IsDataLine(line) /\ Strip(Payload(line)) = <<"[DONE]">>

\* a "data: " line whose payload is a valid chunk record
IsChunkLine(line) ==
    /\ IsDataLine(line)
    /\ IsDict(JsonLoads(Payload(line)))
    /\ StreamChunkValid(JsonLoads(Payload(line)).v)

\* a "data: " line whose payload is JSON but not a JSON object
IsNonObjectLine(line) ==
    /\ IsDataLine(line) /\ ~IsSentinel(line)
    /\ JsonLoads(Payload(line)) # JSONDecodeError
    /\ ~IsDict(JsonLoads(Payload(line)))

\* the chunks of the chunk lines among the lines, in the order of the lines
RECURSIVE ChunksOf(_)
ChunksOf(lines) ==
    IF lines = <<>> THEN <<>>
    ELSE (IF IsChunkLine(Head(lines))
          THEN <<StreamChunk(JsonLoads(Payload(Head(lines))).v)>>
          ELSE <<>>) \o ChunksOf(Tail(lines))

\* the non-empty contents of the chunks, in their order
RECURSIVE ContentsOf(_)
ContentsOf(chunks) ==
    IF chunks = <<>> THEN <<>>
    ELSE (IF Truthy(StreamChunkContent(Head(chunks)))
          THEN <<StreamChunkContent(Head(chunks))>>
          ELSE <<>>) \o ContentsOf(Tail(chunks))

\* the index of the first line that P holds of, Len(lines) when there is none
FirstOr(lines, P(_)) ==
    IF \E i \in 1..Len(lines) : P(lines[i])
    THEN CHOOSE i \in 1..Len(lines) :
            P(lines[i]) /\ \A j \in 1..(i - 1) : ~P(lines[j])
    ELSE Len(lines)

\* the lines before the first sentinel, all of them when there is none
BeforeSentinel(lines) ==
    IF \E i \in 1..Len(lines) : IsSentinel(lines[i])
    THEN SubSeq(lines, 1, FirstOr(lines, IsSentinel) - 1)
    ELSE lines

StreamAnswered ==
    /\ op.name \in StreamOps /\ resp.transport = "ok"
    /\ resp.status_code < 400

\* C4: the two clients offer the same operations, and an operation gives the
\* same result or the same kind of error on both for the same response.
C4_SyncAsyncIdentical ==
    /\ op.name \in NonStreamOps \cup StreamOps =>
            op.name \in SyncMethods /\ op.name \in AsyncMethods
    /\ NonStreamDone => SyncCall(op.name, resp) = AsyncCall(op.name, resp)

\* C5: on the synchronous client simple_completion_stream yields the
\* non-empty contents of the streamed chunks in arrival order and
\* chat_completion_stream one StreamChunk per data line, both up to the
\* "data: [DONE]" line.
C5_SyncStreamYields ==
    StreamDone /\ kind = "sync" /\ StreamAnswered =>
        /\ Returned(outcome)
        /\ op.name = "chat_completion_stream" =>
                yielded = ChunksOf(BeforeSentinel(resp.lines))
        /\ op.name = "simple_completion_stream" =>
                yielded = ContentsOf(ChunksOf(BeforeSentinel(resp.lines)))

\* C6: on the synchronous client simple_completion_stream raises
\* AuthenticationError for a 401 and OpenRouterError saying "Streaming
\* request failed" when the transport raises a request error.
C6_SyncStreamErrors ==
    StreamDone /\ kind = "sync" /\ op.name = "simple_completion_stream" =>
        /\ resp.transport = "ok" /\ resp.status_code = 401 =>
                Raised(outcome) /\ outcome.exc = "AuthenticationError"
        /\ resp.transport = "error" =>
                /\ Raised(outcome) /\ outcome.exc = "OpenRouterError"
                /\ Contains(outcome.message, "Streaming request failed")

IsStopLine(line) == IsSentinel(line) \/ IsNonObjectLine(line)

C8_SentinelEndsStream ==
    \A i \in 1..pos :
        IsSentinel(resp.lines[i]) =>
            /\ pc = "done" /\ pos = i /\ Returned(outcome)
            /\ op.name = "chat_completion_stream" =>
                    yielded = ChunksOf(SubSeq(resp.lines, 1, i - 1))
            /\ op.name = "simple_completion_stream" =>
                    yielded = ContentsOf(ChunksOf(SubSeq(resp.lines, 1, i - 1)))

\* C8 witness: the stream has ended at a sentinel, padded with blanks, that
\* a chunk line follows
C8_Witness ==
    /\ StreamDone /\ StreamAnswered /\ pos >= 1 /\ pos < Len(resp.lines)
    /\ IsSentinel(resp.lines[pos])
    /\ Payload(resp.lines[pos]) # <<"[DONE]">>
    /\ IsChunkLine(resp.lines[pos + 1])
    /\ Returned(outcome)

-----------------------------------------------------------------------------
(* Properties of the response records and of the calls *)

\* the JSON object validates as the record the operation returns
ValidFor(name, f) ==
    CASE name = "get_balance" -> CreditsValid(f)
      [] name = "get_models" -> ModelValid(f)
      [] OTHER -> ChatCompletionValid(f)

\* C11: when the body of a success-status response is a JSON object that
\* lacks required fields of the expected record, get_balance, get_models
\* and chat_completion raise the library's ValidationError, with a message
\* that starts "Invalid response data", and return no record.
C11_InvalidResponseData ==
    /\ NonStreamDone /\ resp.transport = "ok" /\ resp.status_code < 400
    /\ IsDict(resp.body.json) /\ ~ValidFor(op.name, resp.body.json.v)
    => /\ Raised(outcome) /\ outcome.exc = "ValidationError"
       /\ outcome.message[1] = "Invalid response data"

\* C11 witness: get_balance answered 200 with {"invalid": "response"} has
\* raised ValidationError
C11_Witness ==
    /\ NonStreamDone /\ op.name = "get_balance"
    /\ resp.transport = "ok" /\ resp.status_code = 200
    /\ resp.body.json = PyDict([invalid |-> PyStr("response")])
    /\ Raised(outcome) /\ outcome.exc = "ValidationError"

\* C12: every call of simple_completion, get_balance or get_models hands
\* the transport exactly one request, whether the call returns or raises.
C12_OneRequestPerCall ==
    op.name \in {"simple_completion", "get_balance", "get_models"} =>
        /\ Len(sent) = 1
        /\ sent[1].method = (IF op.name = "simple_completion" THEN "POST"
                                                              ELSE "GET")

\* C12 witness: a get_balance whose transport failed has sent one request
C12_Witness ==
    /\ NonStreamDone /\ op.name = "get_balance" /\ resp.transport = "error"
    /\ Raised(outcome) /\ Len(sent) = 1


\* C13: once a with / async with block of a client has been left, normally
\* or by an exception, the client's HTTP connection is closed and the
\* exception that ended the block, if any, has reached the caller.
C13_WithCloses ==
    op.name = "__exit__" =>
        /\ ~within
        /\ client.closed
        /\ escaped = op.arg

\* C13 witness: an async with block that a failed call ended is closed and
\* the call's error has propagated
C13_Witness ==
    /\ op.name = "__exit__" /\ kind = "async"
    /\ Raised(op.arg) /\ op.arg = outcome /\ IsOpenRouterError(op.arg)
    /\ client.closed /\ escaped = op.arg


\* C14: simple_completion, answered with a valid completion, returns the
\* message content of the completion's first choice, and returns "" when
\* the completion has no choices.
C14_SimpleCompletionContent ==
    /\ NonStreamDone /\ op.name = "simple_completion"
    /\ resp.transport = "ok" /\ resp.status_code < 400
    /\ IsDict(resp.body.json) /\ ChatCompletionValid(resp.body.json.v)
    => LET choices == resp.body.json.v.choices.v
       IN  outcome = Return(IF Len(choices) = 0 THEN PyStr("")
                            ELSE choices[1].v.message.v.content)

\* C14 witness: a completion without choices made simple_completion return ""
C14_Witness ==
    /\ NonStreamDone /\ op.name = "simple_completion"
    /\ resp.transport = "ok" /\ resp.status_code = 200
    /\ resp.body.json = ChatCompletionJson(<<>>)
    /\ outcome = Return(PyStr(""))


-----------------------------------------------------------------------------
(* The records, the errors and the package namespace on their own: a caller *)
(* builds a record or an error, or imports a name, and looks at the result *)

MaxAmount == 3
MaxChoices == 2

\* amounts of credits, in whole units
Amounts == 0..MaxAmount

CreditsJson(total_credits, total_usage) ==
    PyDict([data |-> PyDict([total_credits |-> PyNum(total_credits),
                             total_usage |-> PyNum(total_usage)])])

Deltas ==
    { PyDict(<<>>), PyDict([content |-> PyStr("Hello")]),
      PyDict([role |-> PyStr("assistant")]), PyDict([content |-> PyStr("")]) }

FinishReasons == {PyNone, PyStr("stop")}

StreamChoiceJsons ==
    { PyDict([index |-> PyNum(0), delta |-> d, finish_reason |-> fr]) :
        d \in Deltas, fr \in FinishReasons }

ChoiceSeqs == UNION { [1..n -> StreamChoiceJsons] : n \in 0..MaxChoices }

StreamChunkJsonOf(choices) ==
    PyDict([id |-> PyStr("gen-1"), object |-> PyStr("chat.completion.chunk"),
            created |-> PyNum(1), model |-> PyStr("test-model"),
            choices |-> PyList(choices)])

Messages == {<<"Test error">>, <<"Invalid API key">>}

\* what follows the message in the call of an error class: nothing, None or
\* a status
StatusArgs == {<<>>, <<{}>>, <<{400}>>, <<{429}>>}

\* the names each package binds: what its __init__.py imports or assigns,
\* and the submodules those imports load
Namespace(package) ==
    CASE package = "openrouter_py" ->
            {"__version__", "OpenRouterClient", "APIError",
             "AuthenticationError", "OpenRouterError", "Credits",
             "CreditsData", "ChatCompletion", "ChatCompletionChoice",
             "ChatMessage", "__all__", "client", "exceptions", "models"}
      [] package = "openrouter_py.client" ->
            {"AsyncOpenRouterClient", "OpenRouterClient", "__all__",
             "async_client", "openrouter_client"}
      [] OTHER -> {}

\* from <package> import <name>
ImportFrom(package, name) ==
    IF name \in Namespace(package) THEN Return(PyStr(name))
    ELSE Foreign("ImportError")

Packages == {"openrouter_py", "openrouter_py.client"}

ImportNames ==
    {"OpenRouterClient", "AsyncOpenRouterClient", "OpenRouterError",
     "APIError", "Credits", "ChatMessage", "RateLimitError"}

RecordInit ==
    /\ env = PyNone
    /\ kind \in Kinds
    /\ client = NoClient
    /\ pc = "idle"
    /\ op = NoOp
    /\ resp = NoResponse
    /\ outcome = NoOutcome
    /\ pos = 0
    /\ yielded = <<>>
    /\ sent = <<>>
    /\ within = FALSE
    /\ escaped = NoOutcome
    /\ tasks = NoTasks
    /\ tester = NoTester
    /\ conv = NoConversation

\* Credits(**data), and the four properties read off the record
ReadCredits ==
    /\ pc = "idle"
    /\ \E total_credits \in Amounts, total_usage \in Amounts :
        LET data == CreditsJson(total_credits, total_usage)
            credits == Credits(data.v)
        IN  /\ CreditsValid(data.v)
            /\ op' = [name |-> "Credits", arg |-> data]
            /\ outcome' = Return([balance |-> CreditsBalance(credits),
                                  remaining_credits |->
                                      CreditsDataRemainingCredits(credits),
                                  total_purchased |->
                                      CreditsTotalPurchased(credits),
                                  total_used |-> CreditsTotalUsed(credits)])
    /\ pc' = "done"
    /\ UNCHANGED <<env, kind, client, resp, pos, yielded, sent, within,
                    escaped,
                    tasks, tester, conv>>

\* StreamChunk(**data), and the two properties read off the record
ReadStreamChunk ==
    /\ pc = "idle"
    /\ \E choices \in ChoiceSeqs :
        LET data == StreamChunkJsonOf(choices)
            chunk == StreamChunk(data.v)
        IN  /\ StreamChunkValid(data.v)
            /\ op' = [name |-> "StreamChunk", arg |-> data]
            /\ outcome' = Return([content |-> StreamChunkContent(chunk),
                                  is_finished |->
                                      StreamChunkIsFinished(chunk)])
    /\ pc' = "done"
    /\ UNCHANGED <<env, kind, client, resp, pos, yielded, sent, within,
                    escaped,
                    tasks, tester, conv>>

\* try: raise cls(message, *args)
\* except OpenRouterError: pass
RaiseError ==
    /\ pc = "idle"
    /\ \E cls \in DOMAIN Bases, message \in Messages, args \in StatusArgs :
        /\ op' = [name |-> "raise",
                  arg |-> [cls |-> cls, message |-> message, args |-> args]]
        /\ outcome' = NewError(cls, message, args)
        /\ escaped' = IF IsSubclass(cls, "OpenRouterError") THEN NoOutcome
                      ELSE NewError(cls, message, args)
    /\ pc' = "done"
    /\ UNCHANGED <<env, kind, client, resp, pos, yielded, sent, within,
                    tasks, tester, conv>>

\* from <package> import <name>, in a fresh interpreter
Import ==
    /\ pc = "idle"
    /\ \E package \in Packages, name \in ImportNames :
        /\ op' = [name |-> "import",
                  arg |-> [package |-> package, name |-> name]]
        /\ outcome' = ImportFrom(package, name)
    /\ pc' = "done"
    /\ UNCHANGED <<env, kind, client, resp, pos, yielded, sent, within,
                    escaped,
                    tasks, tester, conv>>

RecordNext == ReadCredits \/ ReadStreamChunk \/ RaiseError \/ Import \/ Discard

RecordSpec == RecordInit /\ [][RecordNext]_vars

\* C15: for every credits record, balance and remaining_credits are
\* total_credits - total_usage, total_purchased is total_credits and
\* total_used is total_usage; the balance is negative exactly when the usage
\* exceeds the purchases.
C15_CreditsArithmetic ==
    op.name = "Credits" =>
        LET data == op.arg.v.data.v
            read == outcome.value
        IN  /\ read.balance = data.total_credits.v - data.total_usage.v
            /\ read.remaining_credits = read.balance
            /\ read.total_purchased = data.total_credits.v
            /\ read.total_used = data.total_usage.v
            /\ read.balance < 0 <=> data.total_usage.v > data.total_credits.v

\* C15 witness: a record whose usage exceeds its purchases has a negative
\* balance
C15_Witness ==
    /\ op.name = "Credits"
    /\ op.arg.v.data.v.total_usage.v > op.arg.v.data.v.total_credits.v
    /\ outcome.value.balance < 0

\* C16: for every stream chunk, is_finished is true exactly when one of its
\* choices has a finish_reason, and content is the "content" entry of the
\* first choice's delta, None when there is no choice, when the first delta
\* is empty or when it has no such entry.
C16_ChunkProperties ==
    op.name = "StreamChunk" =>
        LET choices == op.arg.v.choices.v
            read == outcome.value
        IN  /\ read.is_finished
                = (\E i \in 1..Len(choices) :
                        choices[i].v.finish_reason # PyNone)
            /\ read.content
                = IF Len(choices) = 0 THEN PyNone
                  ELSE IF "content" \in DOMAIN choices[1].v.delta.v
                       THEN choices[1].v.delta.v.content
                       ELSE PyNone

\* C16 witness: a chunk whose second choice only has a finish_reason is
\* finished, and its content is that of the first choice
C16_Witness ==
    /\ op.name = "StreamChunk"
    /\ Len(op.arg.v.choices.v) = 2
    /\ op.arg.v.choices.v[1].v.finish_reason = PyNone
    /\ op.arg.v.choices.v[2].v.finish_reason = PyStr("stop")
    /\ outcome.value.is_finished
    /\ outcome.value.content = PyStr("Hello")

\* C17: every error of the library's classes is caught by a handler for
\* OpenRouterError, carries the message it was built with, and has the
\* status code it was given, None when none was given.
C17_ErrorHierarchy ==
    op.name = "raise" =>
        /\ escaped = NoOutcome
        /\ IsOpenRouterError(outcome)
        /\ outcome.exc = op.arg.cls
        /\ outcome.message = op.arg.message
        /\ outcome.status_code
            = (IF Len(op.arg.args) = 0 THEN {} ELSE op.arg.args[1])

\* C17 witness: a ValidationError built without a status code was caught
\* and has the status code None
C17_Witness ==
    /\ op.name = "raise" /\ op.arg.cls = "ValidationError"
    /\ op.arg.args = <<>>
    /\ escaped = NoOutcome
    /\ outcome.message = <<"Test error">> /\ outcome.status_code = {}

\* C18: importing AsyncOpenRouterClient or OpenRouterClient from the
\* top-level package succeeds.
C18_TopLevelImports ==
    /\ op.name = "import" /\ op.arg.package = "openrouter_py"
    /\ op.arg.name \in {"AsyncOpenRouterClient", "OpenRouterClient"}
    => Returned(outcome)


-----------------------------------------------------------------------------
(* Properties of the line loop of chat_completion_stream *)

\* a "data: " line that is neither the sentinel nor a chunk line
IsInvalidLine(line) ==
    IsDataLine(line) /\ ~IsSentinel(line) /\ ~IsChunkLine(line)

\* C19: a "data: " line whose payload is not JSON or is no valid chunk is
\* skipped by chat_completion_stream: the stream raises nothing at it and
\* goes on, so that a stream that has ended has returned and has yielded
\* the chunk of every chunk line before the sentinel.
C19_InvalidLinesSkipped ==
    /\ kind = "async" /\ op.name = "chat_completion_stream"
    /\ StreamAnswered /\ pc \in {"streaming", "done"}
    => /\ \A i \in 1..pos :
            IsInvalidLine(resp.lines[i]) =>
                /\ ~Raised(outcome)
                /\ yielded = ChunksOf(SubSeq(resp.lines, 1, pos))
                /\ pc = "done" =>
                        \/ pos = Len(resp.lines)
                        \/ IsSentinel(resp.lines[pos])
       /\ pc = "done" /\ Returned(outcome) =>
            yielded = ChunksOf(BeforeSentinel(resp.lines))

\* C20: chat_completion_stream on a response without a sentinel line ends
\* normally once the lines have run out, with the chunk of every chunk line
\* yielded and no error raised.
C20_EndsWithoutSentinel ==
    /\ StreamDone /\ kind = "async" /\ op.name = "chat_completion_stream"
    /\ StreamAnswered
    /\ \A i \in 1..Len(resp.lines) : ~IsSentinel(resp.lines[i])
    => /\ Returned(outcome)
       /\ pos = Len(resp.lines)
       /\ yielded = ChunksOf(resp.lines)


-----------------------------------------------------------------------------
(* The completion calls with their arguments, on a constructed client: what *)
(* goes into the body of the request                                        *)

MessageLists ==
    { <<PyDict([role |-> PyStr("user"), content |-> PyStr("Hi")])>>,
      <<ChatMessage(PyStr("user"), PyStr("Hi"), PyNone)>>,
      <<ChatMessage(PyStr("system"), PyStr("Be brief"), PyStr("sys")),
        PyDict([role |-> PyStr("user"), content |-> PyStr("Hi")])>> }

MaxTokensArgs == {PyNone, PyNum(0), PyNum(100)}
TemperatureArgs == {PyNone, PyNum(0), PyNum(1)}
TopPArgs == {PyNone, PyNum(0)}

\* the extra keyword arguments of a call: their names are never those of
\* the method's own parameters, which Python binds to the parameters
ChatCompletionKwargs == {<<>>, [seed |-> PyNum(1)]}
ChatCompletionStreamKwargs ==
    {<<>>, [seed |-> PyNum(1)], [stream |-> PyBool(FALSE)],
     [stream |-> PyBool(TRUE)]}

ChatCompletionArgs ==
    { [messages |-> ms, model |-> PyStr("test-model"), max_tokens |-> mt,
       temperature |-> te, top_p |-> tp, stream |-> st, kwargs |-> kw] :
        ms \in MessageLists, mt \in MaxTokensArgs, te \in TemperatureArgs,
        tp \in TopPArgs, st \in {PyBool(FALSE), PyBool(TRUE)},
        kw \in ChatCompletionKwargs }

ChatCompletionStreamArgs ==
    { [messages |-> ms, model |-> PyStr("test-model"), max_tokens |-> mt,
       temperature |-> te, top_p |-> tp, kwargs |-> kw] :
        ms \in MessageLists, mt \in MaxTokensArgs, te \in TemperatureArgs,
        tp \in TopPArgs, kw \in ChatCompletionStreamKwargs }

\* the answers of the server in these calls
CallResponses ==
    {RequestError, Response(200, Body("{id: gen-1, ..., choices: [{message: Hi}]}",
                                      ChatCompletionJson(<<"Hi">>)))}

CallStreamResponses ==
    {RequestError,
     StreamResponse(200, Body("", JSONDecodeError),
                    <<DataPrefix \o <<"{chunk: Hello}">>>>)}

CallInit == StreamInit

\* client.chat_completion(**a), the server answering r
ChatCompletionCall ==
    /\ pc = "idle"
    /\ \E a \in ChatCompletionArgs, r \in CallResponses :
        /\ op' = [name |-> "chat_completion", arg |-> a]
        /\ sent' = IF kind = "sync" THEN SyncChatCompletionSent(client, a)
                                    ELSE AsyncChatCompletionSent(client, a)
        /\ resp' = r
        /\ outcome' = IF kind = "sync" THEN SyncChatCompletion(r)
                                       ELSE AsyncChatCompletion(r)
    /\ pc' = "done"
    /\ UNCHANGED <<env, kind, client, pos, yielded, within, escaped,
                    tasks, tester, conv>>

\* client.chat_completion_stream(**a) up to the status check, the server
\* answering r
ChatCompletionStreamCall ==
    /\ pc = "idle"
    /\ "chat_completion_stream" \in Methods(kind)
    /\ \E a \in ChatCompletionStreamArgs, r \in CallStreamResponses :
        /\ op' = [name |-> "chat_completion_stream", arg |-> a]
        /\ sent' = AsyncChatCompletionStreamSent(client, a)
        /\ resp' = r
        /\ outcome' = AsyncStreamOpen(r)
        /\ pc' = IF Raised(AsyncStreamOpen(r)) THEN "done" ELSE "streaming"
    /\ pos' = 0
    /\ yielded' = <<>>
    /\ UNCHANGED <<env, kind, client, within, escaped,
                    tasks, tester, conv>>

CallNext ==
    \/ ChatCompletionCall
    \/ ChatCompletionStreamCall
    \/ StreamLine
    \/ StreamEnd
    \/ Discard

CallSpec == CallInit /\ [][CallNext]_vars

\* C22: the body of the request of chat_completion has "model" and
\* "messages"; it has "max_tokens", "temperature" and "top_p", with the
\* argument's value, exactly when the argument is not None, 0 included, and
\* has "stream" exactly when stream is true.
C22_ChatCompletionBody ==
    op.name = "chat_completion" =>
        LET a == op.arg
            body == sent[1].json.v
        IN  /\ Len(sent) = 1
            /\ "model" \in DOMAIN body /\ body.model = a.model
            /\ "messages" \in DOMAIN body
            /\ Len(body.messages.v) = Len(a.messages)
            /\ \A k \in {"max_tokens", "temperature", "top_p"} :
                /\ k \in DOMAIN body <=> a[k] # PyNone
                /\ k \in DOMAIN body => body[k] = a[k]
            /\ "stream" \in DOMAIN body <=> a.stream = PyBool(TRUE)

\* C22 witness: a call with max_tokens = 0, no temperature and stream true
\* has sent max_tokens 0 and stream, and no temperature
C22_Witness ==
    /\ op.name = "chat_completion" /\ pc = "done"
    /\ op.arg.max_tokens = PyNum(0) /\ op.arg.temperature = PyNone
    /\ op.arg.stream = PyBool(TRUE)
    /\ sent[1].json.v.max_tokens = PyNum(0)
    /\ "temperature" \notin DOMAIN sent[1].json.v
    /\ sent[1].json.v.stream = PyBool(TRUE)

\* C23: the body of every request of chat_completion_stream has "stream"
\* set to true, whatever the arguments and the extra keyword arguments.
C23_StreamAlwaysTrue ==
    op.name = "chat_completion_stream" =>
        /\ Len(sent) = 1
        /\ "stream" \in DOMAIN sent[1].json.v
        /\ sent[1].json.v.stream = PyBool(TRUE)


-----------------------------------------------------------------------------
(* Calls issued concurrently on one AsyncOpenRouterClient (asyncio.gather):  *)
(* each call is a coroutine with its own frame; the coroutines share the     *)
(* client and its transport and interleave at every await.                   *)

MaxTasks == 2

ConcOps ==
    {"simple_completion", "get_balance", "chat_completion_stream",
     "simple_completion_stream"}

\* what the server can answer a request with; a non-streaming call reads the
\* body, a streaming call the lines
ConcResponses ==
    { RequestError,
      StreamResponse(401, Body("Bad request", JSONDecodeError), <<>>),
      StreamResponse(200, Body("{id: gen-1, ..., choices: [{message: Hi}]}",
                               ChatCompletionJson(<<"Hi">>)),
                     <<DataPrefix \o <<"{chunk: Hello}">>,
                       DataPrefix \o <<"{chunk: world!}">>,
                       DataPrefix \o <<"[DONE]">>>>),
      StreamResponse(200, Body("{data: {total_credits: 10, total_usage: 3}}",
                               PyDict([data |-> PyDict(
                                    [total_credits |-> PyNum(10),
                                     total_usage |-> PyNum(3)])])),
                     <<DataPrefix \o <<"{chunk: stop}">>>>) }

\* the frame of a coroutine that has not started
IdleTask ==
    [pc |-> "idle", op |-> "none", req |-> 0, resp |-> NoResponse,
     outcome |-> NoOutcome, pos |-> 0, yielded |-> <<>>]

ConcInit ==
    /\ env = PyNone
    /\ kind = "async"
    /\ client = AsyncInit(PyStr("test-key"), env).value
    /\ pc = "idle"
    /\ op = NoOp
    /\ resp = NoResponse
    /\ outcome = NoOutcome
    /\ pos = 0
    /\ yielded = <<>>
    /\ sent = <<>>
    /\ within = FALSE
    /\ escaped = NoOutcome
    /\ tasks = [i \in 1..MaxTasks |-> IdleTask]
    /\ tester = NoTester
    /\ conv = NoConversation

\* coroutine i starts client.<name>(...) and runs to its first await: the
\* request is with the transport
TaskSend(i) ==
    /\ tasks[i].pc = "idle"
    /\ \E name \in ConcOps \cap Methods(kind) :
        /\ sent' = Append(sent,
                [task |-> i,
                 request |-> IF name \in StreamOps
                             THEN AsyncStreamSent(client)[1]
                             ELSE AsyncSent(client, name, NoResponse)[1],
                 answer |-> NoResponse])
        /\ tasks' = [tasks EXCEPT ![i] =
                        [@ EXCEPT !.pc = "waiting", !.op = name,
                                  !.req = Len(sent) + 1]]
    /\ UNCHANGED <<env, kind, client, pc, op, resp, outcome, pos, yielded,
                    within, escaped, tester, conv>>

\* the server answers one of the requests it has not answered yet
ServerAnswer ==
    /\ \E k \in 1..Len(sent) :
        /\ sent[k].answer = NoResponse
        /\ \E r \in ConcResponses : sent' = [sent EXCEPT ![k].answer = r]
    /\ UNCHANGED <<env, kind, client, pc, op, resp, outcome, pos, yielded,
                    within, escaped, tasks, tester, conv>>

\* coroutine i resumes from its await with the answer and runs on: to the
\* end of a non-streaming call, to the line loop of a streaming one
TaskReceive(i) ==
    /\ tasks[i].pc = "waiting"
    /\ Awaited(sent, tasks[i].req) # NoResponse
    /\ LET r == Awaited(sent, tasks[i].req)
           result == IF tasks[i].op \in StreamOps THEN AsyncStreamOpen(r)
                     ELSE AsyncCall(tasks[i].op, r)
       IN  tasks' = [tasks EXCEPT ![i] =
                [@ EXCEPT !.resp = r, !.outcome = result,
                          !.pc = IF tasks[i].op \in StreamOps
                                    /\ ~Raised(result)
                                 THEN "streaming" ELSE "done"]]
    /\ UNCHANGED <<env, kind, client, pc, op, resp, outcome, pos, yielded,
                    sent, within, escaped, tester, conv>>

\* the line loop of coroutine i reads the next line of its response
TaskLine(i) ==
    /\ tasks[i].pc = "streaming"
    /\ tasks[i].pos < Len(tasks[i].resp.lines)
    /\ LET t == tasks[i]
           step == AsyncStreamLine(t.resp.lines[t.pos + 1])
       IN  tasks' = [tasks EXCEPT ![i] =
                [@ EXCEPT
                    !.pos = t.pos + 1,
                    !.yielded =
                        IF step.do # "yield" THEN t.yielded
                        ELSE IF t.op = "simple_completion_stream"
                        THEN t.yielded \o AsyncSimpleStreamYield(step.chunk)
                        ELSE Append(t.yielded, step.chunk),
                    !.outcome = CASE step.do = "break" -> Return(PyNone)
                                  [] step.do = "raise" -> step.exc
                                  [] OTHER -> t.outcome,
                    !.pc = IF step.do \in {"break", "raise"} THEN "done"
                           ELSE "streaming"]]
    /\ UNCHANGED <<env, kind, client, pc, op, resp, outcome, pos, yielded,
                    sent, within, escaped, tester, conv>>

\* the response of coroutine i has no more lines
TaskEnd(i) ==
    /\ tasks[i].pc = "streaming"
    /\ tasks[i].pos = Len(tasks[i].resp.lines)
    /\ tasks' = [tasks EXCEPT ![i] =
                    [@ EXCEPT !.pc = "done", !.outcome = Return(PyNone)]]
    /\ UNCHANGED <<env, kind, client, pc, op, resp, outcome, pos, yielded,
                    sent, within, escaped, tester, conv>>

ConcNext ==
    \/ \E i \in 1..MaxTasks : TaskSend(i)
    \/ ServerAnswer
    \/ \E i \in 1..MaxTasks : TaskReceive(i)
    \/ \E i \in 1..MaxTasks : TaskLine(i)
    \/ \E i \in 1..MaxTasks : TaskEnd(i)

ConcSpec == ConcInit /\ [][ConcNext]_vars


\* C24: in every interleaving of the calls in flight on one async client,
\* each call has received the answer to its own request, its result or
\* error is the one that answer gives a call made alone, each stream has
\* yielded the chunks of its own lines in their order, and the client's
\* api_key, base_url and timeout are as they were constructed.
C24_CallsIndependent ==
    /\ \A i \in DOMAIN tasks :
        LET t == tasks[i]
            own == sent[t.req].answer
        IN  t.pc \in {"streaming", "done"} =>
                /\ sent[t.req].task = i
                /\ t.resp = own
                /\ t.op \notin StreamOps => t.outcome = SyncCall(t.op, own)
                /\ t.op \in StreamOps /\ own.transport = "ok"
                        /\ own.status_code < 400 =>
                    t.yielded =
                        IF t.op = "chat_completion_stream"
                        THEN ChunksOf(SubSeq(own.lines, 1, t.pos))
                        ELSE ContentsOf(ChunksOf(SubSeq(own.lines, 1, t.pos)))
                /\ t.op \in StreamOps /\ ~(own.transport = "ok"
                                           /\ own.status_code < 400) =>
                    t.yielded = <<>> /\ Raised(t.outcome)
    /\ DOMAIN tasks # {} =>
        /\ client.api_key = PyStr("test-key")
        /\ client.base_url = "https://openrouter.ai/api/v1"
        /\ client.timeout = 30

\* C24 witness: two streams were open at once, the second call's request
\* answered first, and each has ended with the contents of its own lines
C24_Witness ==
    /\ DOMAIN tasks = 1..2
    /\ tasks[1].pc = "done" /\ tasks[2].pc = "done"
    /\ tasks[1].op = "simple_completion_stream"
    /\ tasks[2].op = "simple_completion_stream"
    /\ tasks[1].req = 2 /\ tasks[2].req = 1
    /\ tasks[1].yielded = <<PyStr("Hello"), PyStr(" world!")>>
    /\ tasks[2].outcome = Return(PyNone)
    /\ sent[1].answer.transport = "ok" /\ Len(sent[1].answer.lines) = 1
    /\ tasks[2].yielded # tasks[1].yielded


-----------------------------------------------------------------------------
(* ResilientModelTester (resilient_model_test.py).  Times (response_time,   *)
(* test_timestamp, last_saved) and response_quality are left out of the     *)
(* records: nothing modelled here reads them.                               *)

\* self.max_retries and self.save_interval
MaxRetries == 2
SaveInterval == 5

\* TestProgress(total_models, completed_models, failed_models, results, _)
TestProgress(total_models, completed_models, failed_models, results) ==
    [total_models |-> total_models, completed_models |-> completed_models,
     failed_models |-> failed_models, results |-> results]

\* test_progress.json does not exist (or cannot be read: load answers None)
NoFile == [exists |-> FALSE]

\* the elements of a list, as a set
SetOf(list) == {list[i] : i \in 1..Len(list)}

\* GetRemainingModels leaving out the completed models only
GetRemainingModels_CompletedOnly(progress, all_model_ids) ==
    LET completed_set == SetOf(progress.completed_models)
    IN  SelectSeq(all_model_ids, LAMBDA model_id : model_id \notin completed_set)

\* get_remaining_models
GetRemainingModels(progress, all_model_ids) ==
    LET completed_set == SetOf(progress.completed_models)
        failed_set == SetOf(progress.failed_models)
        tested_set == completed_set \cup failed_set
    IN  SelectSeq(all_model_ids, LAMBDA model_id : model_id \notin tested_set)

\* the record _do_model_test returns for a response in which English and
\* Japanese were or were not detected
TestResult(model_id, attempt, english, japanese) ==
    [id |-> model_id, available |-> TRUE, japanese_capable |-> japanese,
     english_capable |-> english, error |-> PyNone, attempts |-> attempt]

\* the record test_single_model returns after the last failed attempt
FailureResult(model_id, error_msg, attempts) ==
    [id |-> model_id, available |-> FALSE, japanese_capable |-> FALSE,
     english_capable |-> FALSE, error |-> PyStr(error_msg),
     attempts |-> attempts]

\* TestSingleModelAttempt retrying after the last attempt as well, so that
\* the loop runs out
TestSingleModelAttempt_RetryLast(max_retries, model_id, attempt, t) ==
    IF attempt >= max_retries + 1 THEN [do |-> "return", result |-> PyNone]
    ELSE IF t.ok
    THEN [do |-> "return",
          result |-> TestResult(model_id, attempt + 1, t.english, t.japanese)]
    ELSE IF attempt <= max_retries THEN [do |-> "retry"]
    ELSE [do |-> "return",
          result |-> FailureResult(model_id, t.error, attempt + 1)]

\* test_single_model, one pass of its loop: attempt counts from 0, t is what
\* _do_model_test does in this attempt (a result, or an exception with its
\* text); with the loop run out the method returns None
TestSingleModelAttempt(max_retries, model_id, attempt, t) ==
    IF attempt >= max_retries + 1 THEN [do |-> "return", result |-> PyNone]
    ELSE IF t.ok
    THEN [do |-> "return",
          result |-> TestResult(model_id, attempt + 1, t.english, t.japanese)]
    ELSE IF attempt < max_retries THEN [do |-> "retry"]
    ELSE [do |-> "return",
          result |-> FailureResult(model_id, t.error, attempt + 1)]

\* the number of the records that have field set
CountOf(results, field) ==
    Cardinality({i \in 1..Len(results) : results[i][field]})

\* generate_final_report: the report is built with its rates guarded, then
\* the summary divides by len(results) unguarded.  Rates are in whole
\* percent.
GenerateFinalReport(results) ==
    IF Len(results) = 0 THEN Foreign("ZeroDivisionError")
    ELSE Return([total_tested |-> Len(results),
                 total_available |-> CountOf(results, "available"),
                 total_japanese |-> CountOf(results, "japanese_capable"),
                 total_english |-> CountOf(results, "english_capable"),
                 success_rate |->
                    (CountOf(results, "available") * 100) \div Len(results),
                 japanese_rate |->
                    (CountOf(results, "japanese_capable") * 100)
                        \div Len(results)])


\* RecordResult entering every model in completed_models, and the failed
\* ones in failed_models too
RecordResult_AlwaysCompleted(progress, model_id, result) ==
    IF result = PyNone THEN progress
    ELSE [progress EXCEPT
            !.results = Append(@, result),
            !.completed_models = Append(@, model_id),
            !.failed_models =
                IF result.available THEN @ ELSE Append(@, model_id)]

\* test_all_models, the loop body after test_single_model has returned
\* result: "if result:" and what it guards, the save aside
RecordResult(progress, model_id, result) ==
    IF result = PyNone THEN progress
    ELSE [progress EXCEPT
            !.results = Append(@, result),
            !.completed_models =
                IF result.available THEN Append(@, model_id) ELSE @,
            !.failed_models =
                IF result.available THEN @ ELSE Append(@, model_id)]

MaxModels == 2

ModelIds == {"m1", "m2"}

\* the model lists test_all_models is called with
ModelLists == UNION { [1..n -> ModelIds] : n \in 0..MaxModels }

\* what _do_model_test does in one attempt: it returns a result, or raises
\* an exception with this text
TestOutcomes ==
    { [ok |-> TRUE, english |-> TRUE, japanese |-> TRUE, error |-> ""],
      [ok |-> TRUE, english |-> FALSE, japanese |-> FALSE, error |-> ""],
      [ok |-> FALSE, english |-> FALSE, japanese |-> FALSE,
       error |-> "Rate limit exceeded"],
      [ok |-> FALSE, english |-> FALSE, japanese |-> FALSE,
       error |-> "Request failed: Connection failed"] }

\* the progress a run has saved: its models, completed and failed
SavedProgress(total_models, completed_models, failed_models) ==
    [exists |-> TRUE, total_models |-> total_models,
     completed_models |-> completed_models, failed_models |-> failed_models,
     results |->
        [i \in 1..Len(completed_models) |->
            TestResult(completed_models[i], 1, TRUE, FALSE)]
        \o [i \in 1..Len(failed_models) |->
            FailureResult(failed_models[i], "Rate limit exceeded",
                          MaxRetries + 1)]]

\* test_progress.json before the run
Files ==
    {NoFile}
    \cup { SavedProgress(n, c, f) :
            n \in 1..MaxModels, c \in {<<>>, <<"m1">>},
            f \in {<<>>, <<"m2">>} }

NewTester(file) ==
    [made |-> TRUE, max_retries |-> MaxRetries,
     save_interval |-> SaveInterval, file |-> file, phase |-> "new",
     list |-> <<>>, resume |-> FALSE, loaded |-> NoFile,
     start |-> TestProgress(0, <<>>, <<>>, <<>>),
     progress |-> TestProgress(0, <<>>, <<>>, <<>>),
     model_ids |-> <<>>, i |-> 0, attempt |-> 0, tries |-> <<>>,
     last |-> PyNone, report |-> NoOutcome]

TesterInit ==
    /\ env = PyNone
    /\ kind = "sync"
    /\ client = NoClient
    /\ pc = "idle"
    /\ op = NoOp
    /\ resp = NoResponse
    /\ outcome = NoOutcome
    /\ pos = 0
    /\ yielded = <<>>
    /\ sent = <<>>
    /\ within = FALSE
    /\ escaped = NoOutcome
    /\ tasks = NoTasks
    /\ tester \in {NewTester(file) : file \in Files}
    /\ conv = NoConversation

\* test_all_models(model_ids, resume) up to its loop
TestAllModels ==
    /\ tester.made /\ tester.phase = "new"
    /\ \E model_ids \in ModelLists, resume \in BOOLEAN :
        LET loaded == resume /\ tester.file.exists
            same == loaded /\ tester.file.total_models = Len(model_ids)
            progress == IF same
                        THEN TestProgress(tester.file.total_models,
                                          tester.file.completed_models,
                                          tester.file.failed_models,
                                          tester.file.results)
                        ELSE TestProgress(Len(model_ids), <<>>, <<>>, <<>>)
            remaining == IF same THEN GetRemainingModels(progress, model_ids)
                         ELSE model_ids
        IN  tester' = [tester EXCEPT
                !.list = model_ids, !.resume = resume,
                !.loaded = IF loaded THEN tester.file ELSE NoFile,
                !.start = progress, !.progress = progress,
                !.model_ids = remaining,
                !.phase = IF remaining = <<>> THEN "returned"
                          ELSE "testing"]
    /\ UNCHANGED <<env, kind, client, pc, op, resp, outcome, pos, yielded,
                    sent, within, escaped, tasks, conv>>

\* one attempt of test_single_model on the model the loop is at; when the
\* method returns, the rest of the loop body: the result is recorded, the
\* progress saved at every save_interval-th and at the last model
TestAttempt ==
    /\ tester.made /\ tester.phase = "testing"
    /\ \E t \in TestOutcomes :
        LET model_id == tester.model_ids[tester.i + 1]
            step == TestSingleModelAttempt(tester.max_retries, model_id,
                                           tester.attempt, t)
            tried == Append(tester.tries, t)
            i == tester.i + 1
            result == step.result
            recorded == RecordResult(tester.progress, model_id, result)
            saves == /\ result # PyNone
                     /\ \/ i % tester.save_interval = 0
                        \/ i = Len(tester.model_ids)
        IN  IF step.do = "retry"
            THEN tester' = [tester EXCEPT
                    !.attempt = @ + 1,
                    !.tries = IF tester.attempt = 0 THEN <<t>> ELSE tried]
            ELSE tester' = [tester EXCEPT
                    !.attempt = 0,
                    !.tries = IF tester.attempt = 0 THEN <<t>> ELSE tried,
                    !.last = result,
                    !.progress = recorded,
                    !.file = IF saves
                             THEN [exists |-> TRUE,
                                   total_models |-> recorded.total_models,
                                   completed_models |->
                                        recorded.completed_models,
                                   failed_models |-> recorded.failed_models,
                                   results |-> recorded.results]
                             ELSE @,
                    !.i = i,
                    !.phase = IF i = Len(tester.model_ids) THEN "returned"
                              ELSE "testing"]
    /\ UNCHANGED <<env, kind, client, pc, op, resp, outcome, pos, yielded,
                    sent, within, escaped, tasks, conv>>

\* generate_final_report(), called as main does after test_all_models; a
\* report that got through removes the progress file
FinalReport ==
    /\ tester.made /\ tester.phase = "returned"
    /\ LET report == GenerateFinalReport(tester.progress.results)
       IN  tester' = [tester EXCEPT
                !.report = report,
                !.file = IF Raised(report) THEN @ ELSE NoFile,
                !.phase = IF Raised(report) THEN "crashed" ELSE "reported"]
    /\ UNCHANGED <<env, kind, client, pc, op, resp, outcome, pos, yielded,
                    sent, within, escaped, tasks, conv>>

TesterNext == TestAllModels \/ TestAttempt \/ FinalReport

TesterSpec == TesterInit /\ [][TesterNext]_vars


\* C25: test_single_model makes at most max_retries + 1 attempts, returns
\* at the first successful one with that attempt's record, and after
\* max_retries + 1 failed attempts returns a record with available false,
\* the last error and attempts = max_retries + 1; it never returns None.
C25_SingleModelResult ==
    tester.made =>
        /\ tester.attempt <= tester.max_retries
        /\ tester.attempt > 0 => Len(tester.tries) = tester.attempt
        /\ tester.i > 0 /\ tester.attempt = 0 =>
            LET r == tester.last
                n == Len(tester.tries)
            IN  /\ r # PyNone
                /\ n >= 1 /\ n <= tester.max_retries + 1
                /\ \A k \in 1..(n - 1) : ~tester.tries[k].ok
                /\ r.id = tester.model_ids[tester.i]
                /\ IF tester.tries[n].ok
                   THEN /\ r.available /\ r.error = PyNone
                        /\ r.attempts = n
                   ELSE /\ n = tester.max_retries + 1
                        /\ ~r.available
                        /\ r.error = PyStr(tester.tries[n].error)
                        /\ r.attempts = tester.max_retries + 1

\* C25 witness: a model failed three times, the last time with another
\* error than the first, and the record has the last error and 3 attempts
C25_Witness ==
    /\ tester.made /\ tester.i = 1 /\ tester.attempt = 0
    /\ Len(tester.tries) = MaxRetries + 1
    /\ ~tester.tries[MaxRetries + 1].ok
    /\ tester.tries[1].error # tester.tries[MaxRetries + 1].error
    /\ ~tester.last.available
    /\ tester.last.error = PyStr(tester.tries[MaxRetries + 1].error)
    /\ tester.last.attempts = MaxRetries + 1


\* the ids of the results the run has added to those it started with
TestedInRun ==
    [k \in 1..(Len(tester.progress.results) - Len(tester.start.results)) |->
        tester.progress.results[Len(tester.start.results) + k].id]

\* the list without its elements that are in the set, in the list's order
RECURSIVE Without(_, _)
Without(list, set) ==
    IF list = <<>> THEN <<>>
    ELSE (IF Head(list) \in set THEN <<>> ELSE <<Head(list)>>)
         \o Without(Tail(list), set)

\* C26: a run resumed from saved progress whose total_models is the length
\* of the model list tests the models of the list that are in neither
\* completed_models nor failed_models of the saved progress, in list order,
\* and none of the recorded ones; when the totals differ the run starts
\* from fresh progress and tests the whole list.
C26_ResumeTestsRemaining ==
    tester.made /\ tester.phase # "new" /\ tester.loaded.exists =>
        LET saved == tester.loaded
            recorded == SetOf(saved.completed_models)
                            \cup SetOf(saved.failed_models)
        IN  /\ TestedInRun = SubSeq(tester.model_ids, 1, tester.i)
            /\ tester.phase \in {"returned", "reported", "crashed"} =>
                    tester.i = Len(tester.model_ids)
            /\ IF saved.total_models = Len(tester.list)
               THEN /\ tester.model_ids = Without(tester.list, recorded)
                    /\ \A k \in 1..Len(TestedInRun) :
                            TestedInRun[k] \notin recorded
                    /\ tester.start.results = saved.results
                    /\ tester.start.completed_models = saved.completed_models
                    /\ tester.start.failed_models = saved.failed_models
               ELSE /\ tester.model_ids = tester.list
                    /\ tester.start
                        = TestProgress(Len(tester.list), <<>>, <<>>, <<>>)

\* C26 witness: a run over two models resumed from progress that had m1
\* completed has tested m2 only
C26_Witness ==
    /\ tester.made /\ tester.phase = "returned" /\ tester.loaded.exists
    /\ tester.list = <<"m1", "m2">>
    /\ tester.loaded.total_models = 2
    /\ tester.loaded.completed_models = <<"m1">>
    /\ tester.loaded.failed_models = <<>>
    /\ TestedInRun = <<"m2">>

\* the run started from fresh progress
FreshRun ==
    /\ tester.made /\ tester.phase # "new"
    /\ tester.start = TestProgress(Len(tester.list), <<>>, <<>>, <<>>)

\* after the models tested so far, completed_models and failed_models are
\* disjoint, each tested model is in exactly one of them, the completed one
\* iff its record has available true, and there are as many results as
\* entries of the two lists
ListsPartitionTested ==
    LET p == tester.progress
        completed == SetOf(p.completed_models)
        failed == SetOf(p.failed_models)
    IN  /\ completed \cap failed = {}
        /\ Len(p.results) = Len(p.completed_models) + Len(p.failed_models)
        /\ Len(p.results) = tester.i
        /\ \A k \in 1..tester.i :
            /\ p.results[k].id = tester.model_ids[k]
            /\ tester.model_ids[k] \in completed <=> p.results[k].available
            /\ tester.model_ids[k] \in failed <=> ~p.results[k].available

\* C27 as stated: in a run from fresh progress the two lists partition the
\* tested models after every step.
C27_ListsPartitionTested == FreshRun => ListsPartitionTested

\* no id occurs twice in the model list
DistinctIds ==
    \A a, b \in 1..Len(tester.list) : a # b => tester.list[a] # tester.list[b]

\* C27 amended: in a run from fresh progress over a model list without
\* repeated ids, after every step completed_models and failed_models are
\* disjoint, each tested model is in exactly one of them (completed iff its
\* record has available true) and the number of results is
\* len(completed_models) + len(failed_models); for any model list the
\* number of results is that sum, each result's model is in the list its
\* available says, and a repeated id is tested once per occurrence.
C27_ListsPartitionDistinct ==
    FreshRun =>
        LET p == tester.progress
        IN  /\ DistinctIds => ListsPartitionTested
            /\ Len(p.results) = Len(p.completed_models) + Len(p.failed_models)
            /\ Len(p.results) = tester.i
            /\ \A k \in 1..tester.i :
                /\ p.results[k].id = tester.model_ids[k]
                /\ IF p.results[k].available
                   THEN tester.model_ids[k] \in SetOf(p.completed_models)
                   ELSE tester.model_ids[k] \in SetOf(p.failed_models)

\* C27 witness: a fresh run over m1, m2 has m1 completed and m2 failed
C27_Witness ==
    /\ FreshRun /\ tester.list = <<"m1", "m2">> /\ tester.i = 2
    /\ tester.progress.completed_models = <<"m1">>
    /\ tester.progress.failed_models = <<"m2">>
    /\ Len(tester.progress.results) = 2

\* C28: generate_final_report ends without an error for every result list,
\* and for the empty one reports success_rate 0 and japanese_rate 0.
C28_ReportCompletes ==
    tester.made /\ tester.phase \in {"reported", "crashed"} =>
        /\ Returned(tester.report)
        /\ tester.progress.results = <<>> =>
            /\ tester.report.value.success_rate = 0
            /\ tester.report.value.japanese_rate = 0


-----------------------------------------------------------------------------
(* ConversationManager (examples/conversation_manager.py), on a synchronous *)
(* client.  The history self.messages is a list of ChatMessage objects.     *)

\* the ChatMessage object pydantic makes of a message dict
ChatMessageOf(d) ==
    ChatMessage(d.v.role, d.v.content,
                IF "name" \in DOMAIN d.v THEN d.v.name ELSE PyNone)

\* SetSystemMessage keeping the system messages the history has
SetSystemMessage_KeepOld(messages, content) ==
    <<ChatMessage(PyStr("system"), PyStr(content), PyNone)>> \o messages

\* set_system_message
SetSystemMessage(messages, content) ==
    <<ChatMessage(PyStr("system"), PyStr(content), PyNone)>>
        \o SelectSeq(messages, LAMBDA msg : msg.v.role # PyStr("system"))

\* add_user_message
AddUserMessage(messages, content) ==
    Append(messages, ChatMessage(PyStr("user"), PyStr(content), PyNone))

\* clear_conversation
ClearConversation(messages, keep_system) ==
    IF keep_system
    THEN SelectSeq(messages, LAMBDA msg : msg.v.role = PyStr("system"))
    ELSE <<>>

\* the arguments get_ai_response calls chat_completion with; the
\* temperature 0.7 is written in tenths
GetAiResponseArgs(manager) ==
    [messages |-> manager.messages, model |-> manager.model,
     max_tokens |-> PyNum(150), temperature |-> PyNum(7), top_p |-> PyNone,
     stream |-> PyBool(FALSE), kwargs |-> <<>>]

\* get_ai_response, the server answering r: the history afterwards and what
\* the method returns or raises
GetAiResponse(manager, r) ==
    LET completion == SyncChatCompletion(r)
    IN  IF Raised(completion)
        THEN [messages |-> manager.messages, result |-> completion]
        ELSE IF Truthy(ChatCompletionMessage(completion.value))
        THEN [messages |->
                Append(manager.messages,
                       ChatMessageOf(ChatCompletionMessage(completion.value))),
              result |-> Return(PyOr(ChatCompletionContent(completion.value),
                                     PyStr("")))]
        ELSE [messages |-> manager.messages, result |-> Return(PyStr(""))]

\* Chat taking the user message back when the request fails
Chat_RollBack(manager, user_input, r) ==
    LET asked == [manager EXCEPT
                    !.messages = AddUserMessage(@, user_input)]
        got == GetAiResponse(asked, r)
    IN  IF Raised(got.result)
        THEN [messages |-> manager.messages, result |-> got.result]
        ELSE got

\* chat
Chat(manager, user_input, r) ==
    GetAiResponse([manager EXCEPT
                    !.messages = AddUserMessage(@, user_input)], r)


MaxMessages == 4

SystemContents == {"Be brief", "Be kind"}
UserContents == {"Hi", "Yo"}

\* the answers of the server to the request of chat
ConvResponses ==
    { RequestError,
      Response(401, Body("Bad request", JSONDecodeError)),
      Response(200, Body("{invalid: response}",
                         PyDict([invalid |-> PyStr("response")]))),
      Response(200, Body("{id: gen-1, ..., choices: [{message: Hi}]}",
                         ChatCompletionJson(<<"Hi">>))),
      Response(200, Body("{id: gen-1, ..., choices: []}",
                         ChatCompletionJson(<<>>))) }

\* ConversationManager(client)
NewConversation ==
    [made |-> TRUE, model |-> PyStr("google/gemma-3n-e2b-it:free"),
     messages |-> <<>>, before |-> <<>>]

ConvInit ==
    /\ env = PyNone
    /\ kind = "sync"
    /\ client = SyncInit(PyStr("test-key"), env).value
    /\ pc = "idle"
    /\ op = NoOp
    /\ resp = NoResponse
    /\ outcome = NoOutcome
    /\ pos = 0
    /\ yielded = <<>>
    /\ sent = <<>>
    /\ within = FALSE
    /\ escaped = NoOutcome
    /\ tasks = NoTasks
    /\ tester = NoTester
    /\ conv = NewConversation

\* manager.set_system_message(content)
SetSystem ==
    /\ conv.made
    /\ \E content \in SystemContents :
        /\ Len(SetSystemMessage(conv.messages, content)) <= MaxMessages
        /\ conv' = [conv EXCEPT
                !.before = conv.messages,
                !.messages = SetSystemMessage(conv.messages, content)]
        /\ op' = [name |-> "set_system_message", arg |-> PyStr(content)]
    /\ outcome' = Return(PyNone)
    /\ resp' = NoResponse
    /\ sent' = <<>>
    /\ UNCHANGED <<env, kind, client, pc, pos, yielded, within, escaped,
                    tasks, tester>>

\* manager.add_user_message(content)
AddUser ==
    /\ conv.made
    /\ Len(conv.messages) < MaxMessages
    /\ \E content \in UserContents :
        /\ conv' = [conv EXCEPT
                !.before = conv.messages,
                !.messages = AddUserMessage(conv.messages, content)]
        /\ op' = [name |-> "add_user_message", arg |-> PyStr(content)]
    /\ outcome' = Return(PyNone)
    /\ resp' = NoResponse
    /\ sent' = <<>>
    /\ UNCHANGED <<env, kind, client, pc, pos, yielded, within, escaped,
                    tasks, tester>>

\* manager.clear_conversation(keep_system)
Clear ==
    /\ conv.made
    /\ \E keep_system \in BOOLEAN :
        /\ conv' = [conv EXCEPT
                !.before = conv.messages,
                !.messages = ClearConversation(conv.messages, keep_system)]
        /\ op' = [name |-> "clear_conversation",
                  arg |-> PyBool(keep_system)]
    /\ outcome' = Return(PyNone)
    /\ resp' = NoResponse
    /\ sent' = <<>>
    /\ UNCHANGED <<env, kind, client, pc, pos, yielded, within, escaped,
                    tasks, tester>>

\* manager.chat(user_input), the server answering r
ChatCall ==
    /\ conv.made
    /\ Len(conv.messages) + 2 <= MaxMessages
    /\ \E user_input \in UserContents, r \in ConvResponses :
        LET asked == [conv EXCEPT !.messages = AddUserMessage(@, user_input)]
            got == Chat(conv, user_input, r)
        IN  /\ conv' = [conv EXCEPT !.before = conv.messages,
                                    !.messages = got.messages]
            /\ outcome' = got.result
            /\ resp' = r
            /\ sent' = SyncChatCompletionSent(client, GetAiResponseArgs(asked))
            /\ op' = [name |-> "chat", arg |-> PyStr(user_input)]
    /\ UNCHANGED <<env, kind, client, pc, pos, yielded, within, escaped,
                    tasks, tester>>

ConvNext == SetSystem \/ AddUser \/ Clear \/ ChatCall

ConvSpec == ConvInit /\ [][ConvNext]_vars


\* the system messages of a history, and the others, each in their order
RECURSIVE SystemOf(_)
SystemOf(messages) ==
    IF messages = <<>> THEN <<>>
    ELSE (IF Head(messages).v.role = PyStr("system") THEN <<Head(messages)>>
          ELSE <<>>) \o SystemOf(Tail(messages))

RECURSIVE NonSystemOf(_)
NonSystemOf(messages) ==
    IF messages = <<>> THEN <<>>
    ELSE (IF Head(messages).v.role = PyStr("system") THEN <<>>
          ELSE <<Head(messages)>>) \o NonSystemOf(Tail(messages))

\* C29: the history never holds more than one system message; after
\* set_system_message it holds exactly one, at index 0, with the given
\* content and the other messages in their order; clear_conversation
\* leaves the system messages when keep_system is true and nothing
\* otherwise.
C29_SystemMessage ==
    conv.made =>
        /\ Len(SystemOf(conv.messages)) <= 1
        /\ op.name = "set_system_message" =>
            /\ Len(SystemOf(conv.messages)) = 1
            /\ conv.messages[1]
                = ChatMessage(PyStr("system"), op.arg, PyNone)
            /\ NonSystemOf(conv.messages) = NonSystemOf(conv.before)
        /\ op.name = "clear_conversation" =>
            conv.messages = (IF op.arg = PyBool(TRUE)
                             THEN SystemOf(conv.before) ELSE <<>>)

\* C29 witness: set_system_message on a history with a system message and
\* two user messages has replaced the system message and kept the two
C29_Witness ==
    /\ conv.made /\ op.name = "set_system_message"
    /\ Len(conv.before) = 3 /\ Len(SystemOf(conv.before)) = 1
    /\ conv.before[1].v.content # op.arg
    /\ Len(conv.messages) = 3
    /\ conv.messages[2] = conv.before[2]
    /\ conv.messages[3] = conv.before[3]
    /\ conv.messages[2] # conv.messages[3]

\* the user message chat(u) adds
AskedMessage == ChatMessage(PyStr("user"), op.arg, PyNone)

\* the request of chat carried the whole history with the user message
SentWholeHistory ==
    /\ Len(sent) = 1
    /\ sent[1].json.v.messages.v
        = [k \in 1..(Len(conv.before) + 1) |->
            LET msg == Append(conv.before, AskedMessage)[k]
            IN  PyDict([role |-> msg.v.role, content |-> msg.v.content])]

\* C30 as stated: a chat that returns has extended the history by the user
\* message and the reply, and sent the whole history; a chat that raises
\* has left the user message as the last message.
C30_ChatExtendsHistory ==
    conv.made /\ op.name = "chat" =>
        /\ SentWholeHistory
        /\ Returned(outcome) =>
            /\ Len(conv.messages) = Len(conv.before) + 2
            /\ SubSeq(conv.messages, 1, Len(conv.before) + 1)
                = Append(conv.before, AskedMessage)
            /\ conv.messages[Len(conv.messages)].v.role = PyStr("assistant")
        /\ Raised(outcome) =>
            conv.messages = Append(conv.before, AskedMessage)

\* C30 amended: chat(u) sends the whole history including u; when the
\* request succeeds with a completion that has a choice, the history is
\* extended by exactly u followed by the first choice's message and chat
\* returns its content; when it succeeds with a completion without choices,
\* the history is extended by u only and chat returns ""; when the request
\* fails, the error propagates and the history keeps u as its last message.
C30_ChatExtendsHistoryByChoice ==
    conv.made /\ op.name = "chat" =>
        /\ SentWholeHistory
        /\ Returned(outcome) =>
            LET choices == resp.body.json.v.choices.v
            IN  IF Len(choices) > 0
                THEN /\ conv.messages
                        = conv.before
                            \o <<AskedMessage,
                                 ChatMessage(choices[1].v.message.v.role,
                                             choices[1].v.message.v.content,
                                             PyNone)>>
                     /\ outcome.value = choices[1].v.message.v.content
                ELSE /\ conv.messages = Append(conv.before, AskedMessage)
                     /\ outcome.value = PyStr("")
        /\ Raised(outcome) =>
            conv.messages = Append(conv.before, AskedMessage)
        /\ Returned(outcome) \/ Raised(outcome)

\* C30 witness: a chat on a history of two messages whose request succeeded
\* with a reply has returned the reply's content, and the history now holds
\* the two messages, the user message and the assistant's reply
C30_Witness ==
    /\ conv.made /\ op.name = "chat" /\ Len(conv.before) = 2
    /\ Returned(outcome) /\ outcome.value = PyStr("Hi")
    /\ Len(conv.messages) = 4
    /\ SubSeq(conv.messages, 1, 2) = conv.before
    /\ conv.messages[3] = AskedMessage
    /\ conv.messages[4].v.role = PyStr("assistant")
    /\ conv.messages[4].v.content = PyStr("Hi")
    /\ Len(sent[1].json.v.messages.v) = 3

====
